---- MODULE Spec2Model ----
(***************************************************************************)
(* MerkleSet (bramcohen/MerkleSet): the packed patricia storage engine of  *)
(* merkle_set.py, the reference implementation it must agree with, the     *)
(* proof generator and the stateless verifiers.                            *)
(*                                                                         *)
(* A 32-byte string is a sequence of naturals <<type, kind, ...>>: type is *)
(* byte 0 masked with 0xC0 (EMPTY, TERMINAL, MIDDLE or INVALID) and the    *)
(* rest stands for the remaining 254 bits: nothing (all zero), the key     *)
(* bits of an element, the low bits of a free-list link written over the   *)
(* first two bytes of a zeroed cell, or a blake2s digest.  A digest is the *)
(* term of what was hashed, so two digests are equal exactly when their    *)
(* preimages are (blake2s taken as collision free).                        *)
(***************************************************************************)
EXTENDS Integers, Sequences, FiniteSets, TLC

\* ------------------------------------------------------------------ bounds
KeyBits == 3            \* significant key bits of the elements that are added
MaxDepth == 2           \* largest branch depth tried
MaxLeafUnits == 2       \* largest leaf capacity tried
MaxKey == 5             \* the elements are the keys 0 .. MaxKey
MaxCalls == 5           \* add / remove calls made on one set
MaxRoundTrip == 4       \* elements added before they are removed again
MaxOther == 4           \* calls made on a set whose members are named by other strings
MaxNesting == 3         \* nested promotions of a full leaf at which the recursion limit is met
MaxCrowded == 2         \* calls made on a set after it was filled

\* --------------------------------------------------------- program constants
EMPTY == 0
TERMINAL == 64
MIDDLE == 128
INVALID == 192

NOTSTARTED == 2
ONELEFT == 3
FRAGILE == 4
INVALIDATING == 5
DONE == 6
FULL == 7

NOPOS == 65535          \* 0xFFFF: end of a free list, or "the child is a branch"

\* kinds of payload carried behind the type bits
KZero == 1
KKey == 2
KLink == 3
KHash == 4

BLANK == <<EMPTY, KZero>>

Keys == 0 .. MaxKey

KeyValue(t, k) == <<t, KKey, k>>

\* A key with one more significant bit: the bits of w \div 2 and then w % 2.
\* The bit after the first KeyBits is kept apart and only when it is set, so
\* that WideValue(t, 2 * k) is the string KeyValue(t, k).
WideValue(t, w) == IF w % 2 = 0 THEN KeyValue(t, w \div 2) ELSE <<t, KKey, w \div 2, 1>>

\* the key bit after the first KeyBits
KeyTail(v) == IF Len(v) > 3 THEN v[4] ELSE 0

\* every 32-byte input offered to add / remove / is_included: any type bits
Inputs == { KeyValue(t, k) : t \in {EMPTY, INVALID}, k \in Keys }

get_type(v) == v[1]

flip_terminal(v) == [v EXCEPT ![1] = TERMINAL]
flip_middle(v) == [v EXCEPT ![1] = MIDDLE]
flip_invalid(v) == [v EXCEPT ![1] = INVALID]

\* mybytes[pos] |= INVALID
make_invalid(v) == [v EXCEPT ![1] = INVALID]

\* bit pos of a key, counted after the two type bits
get_bit(v, pos) ==
    IF pos < KeyBits THEN (v[3] \div (2 ^ (KeyBits - 1 - pos))) % 2
    ELSE IF pos = KeyBits THEN KeyTail(v) ELSE 0

\* byte order of two strings of the same type and kind
BytesLess(a, b) ==
    \/ a[1] < b[1]
    \/ a[1] = b[1] /\ a[2] = KKey /\ b[2] = KKey /\ a[3] < b[3]
    \/ a[1] = b[1] /\ a[2] = KKey /\ b[2] = KKey /\ a[3] = b[3] /\ KeyTail(a) < KeyTail(b)

\* blake2s of 64 bytes with the type bits forced to MIDDLE
Digest(a, b) == <<MIDDLE, KHash, Len(a) + Len(b)>> \o a \o b

\* the assertions of hasher
HasherPre(a, b) ==
    LET t0 == get_type(a)
        t1 == get_type(b)
    IN  /\ t0 # INVALID /\ t1 # INVALID
        /\ (t0 \in {EMPTY, TERMINAL} /\ t1 \in {EMPTY, TERMINAL})
              => (t0 = TERMINAL /\ t1 = TERMINAL /\ BytesLess(a, b))
        /\ (t0 = EMPTY => a = BLANK)
        /\ (t1 = EMPTY => b = BLANK)

hasher(a, b) == Digest(a, b)

\* the first two bytes of a cell read as a big-endian number
First2(v) ==
    CASE v[2] = KZero -> (v[1] \div 64) * 16384
      [] v[2] = KLink -> (v[1] \div 64) * 16384 + v[3]

\* a zeroed 32 bytes whose first two bytes are then set to n
RawLink(n) ==
    IF n = 0 THEN BLANK ELSE <<(n \div 16384) * 64, KLink, n % 16384>>

\* leaf[lpos:lpos + 2] = bytes(2)
ZeroFirst2(v) ==
    CASE v[2] = KZero -> BLANK
      [] v[2] = KLink -> BLANK

\* Bind(v, K) is K(v): the value v is computed once and named by K's parameter.
Bind(v, K(_)) == K(v)

\* ------------------------------------------------- ReferenceMerkleSet: nodes
\* A node of the reference tree.  k is the node class; a raised exception is
\* carried as a node whose k names it.
EmptyNode == [k |-> "Empty", hash |-> BLANK, c |-> <<>>]
TerminalNode(h) == [k |-> "Terminal", hash |-> h, c |-> <<>>]
UnknownNode(h) == [k |-> "Unknown", hash |-> h, c |-> <<>>]
Raised(e) == [k |-> e, hash |-> BLANK, c |-> <<>>]

NodeKinds == {"Empty", "Terminal", "Middle", "Unknown"}
IsRaised(n) == n.k \notin NodeKinds

is_empty(n) == n.k = "Empty"
is_terminal(n) == n.k = "Terminal"

\* "yes", "no", or "SetError" when it raises
RECURSIVE is_double(_)
is_double(n) ==
    CASE n.k = "Empty" -> "SetError"
      [] n.k = "Terminal" -> "SetError"
      [] n.k = "Unknown" -> "no"
      [] n.k = "Middle" ->
            IF is_empty(n.c[2]) THEN is_double(n.c[1])
            ELSE IF is_empty(n.c[1]) THEN is_double(n.c[2])
            ELSE IF is_terminal(n.c[1]) /\ is_terminal(n.c[2]) THEN "yes" ELSE "no"

\* MiddleNode.__init__
MiddleNode(c0, c1) ==
    IF IsRaised(c0) THEN c0
    ELSE IF IsRaised(c1) THEN c1
    ELSE
    Bind(IF is_empty(c1) THEN is_double(c0) ELSE "no", LAMBDA d0 :
    Bind(IF is_empty(c0) THEN is_double(c1) ELSE "no", LAMBDA d1 :
    LET small(n) == is_empty(n) \/ is_terminal(n)
    IN  IF d0 = "SetError" THEN Raised("SetError")
        ELSE IF d0 = "yes" THEN [k |-> "Middle", hash |-> c0.hash, c |-> <<c0, c1>>]
        ELSE IF d1 = "SetError" THEN Raised("SetError")
        ELSE IF d1 = "yes" THEN [k |-> "Middle", hash |-> c1.hash, c |-> <<c0, c1>>]
        ELSE IF small(c0) /\ small(c1) /\ (is_empty(c0) \/ is_empty(c1))
             THEN Raised("SetError")
        ELSE IF small(c0) /\ small(c1) /\ ~ BytesLess(c0.hash, c1.hash)
             THEN Raised("SetError")
        ELSE [k |-> "Middle", hash |-> Digest(c0.hash, c1.hash), c |-> <<c0, c1>>]))

\* TerminalNode._make_middle: children are the two terminals, smaller first
RECURSIVE _make_middle(_, _, _)
_make_middle(lo, hi, depth) ==
    Bind(get_bit(lo.hash, depth), LAMBDA b0 :
    Bind(get_bit(hi.hash, depth), LAMBDA b1 :
    IF b0 # b1 THEN MiddleNode(lo, hi)
        ELSE IF b0 = 0 THEN MiddleNode(_make_middle(lo, hi, depth + 1), EmptyNode)
        ELSE MiddleNode(EmptyNode, _make_middle(lo, hi, depth + 1))))

RECURSIVE RefAdd(_, _, _)
RefAdd(n, toadd, depth) ==
    CASE n.k = "Empty" -> TerminalNode(toadd)
      [] n.k = "Terminal" ->
            IF toadd = n.hash THEN n
            ELSE IF BytesLess(n.hash, toadd)
                 THEN _make_middle(n, TerminalNode(toadd), depth)
                 ELSE _make_middle(TerminalNode(toadd), n, depth)
      [] n.k = "Middle" ->
            Bind(get_bit(toadd, depth), LAMBDA bit :
            Bind(n.c[bit + 1], LAMBDA child :
            Bind(RefAdd(child, toadd, depth + 1), LAMBDA newchild :
            IF newchild = child THEN n
                ELSE IF bit = 0 THEN MiddleNode(newchild, n.c[2])
                ELSE MiddleNode(n.c[1], newchild))))

RECURSIVE RefRemove(_, _, _)
RefRemove(n, toremove, depth) ==
    CASE n.k = "Empty" -> n
      [] n.k = "Terminal" -> IF toremove = n.hash THEN EmptyNode ELSE n
      [] n.k = "Middle" ->
            Bind(get_bit(toremove, depth), LAMBDA bit :
            Bind(n.c[bit + 1], LAMBDA child :
            Bind(RefRemove(child, toremove, depth + 1), LAMBDA newchild :
            Bind(n.c[(1 - bit) + 1], LAMBDA otherchild :
            IF newchild = child THEN n
                ELSE IF is_empty(newchild) /\ is_terminal(otherchild) THEN otherchild
                ELSE IF is_terminal(newchild) /\ is_empty(otherchild) THEN newchild
                ELSE IF bit = 0 THEN MiddleNode(newchild, otherchild)
                ELSE MiddleNode(otherchild, newchild)))))

\* is_included / other_included: [r, p, e]: the boolean, the bytes appended
\* to p, and e = "SetError" when the call raises
RECURSIVE RefIsIncluded(_, _, _)
RECURSIVE RefOtherIncluded(_, _, _, _)
RefIsIncluded(n, tocheck, depth) ==
    CASE n.k = "Empty" -> [r |-> FALSE, p |-> <<EMPTY>>, e |-> ""]
      [] n.k = "Terminal" -> [r |-> tocheck = n.hash, p |-> n.hash, e |-> ""]
      [] n.k = "Unknown" -> [r |-> FALSE, p |-> <<>>, e |-> "SetError"]
      [] n.k = "Middle" ->
            Bind(get_bit(tocheck, depth), LAMBDA bit :
            Bind(RefIsIncluded(n.c[bit + 1], tocheck, depth + 1), LAMBDA on :
            Bind(RefOtherIncluded(n.c[(1 - bit) + 1], tocheck, depth + 1,
                                        ~ is_empty(n.c[bit + 1])), LAMBDA off :
            Bind(IF bit = 0
                       THEN (IF on.e # "" THEN on.e ELSE off.e)
                       ELSE (IF off.e # "" THEN off.e ELSE on.e), LAMBDA err :
            [r |-> on.r,
                 p |-> IF bit = 0 THEN <<MIDDLE>> \o on.p \o off.p
                                  ELSE <<MIDDLE>> \o off.p \o on.p,
                 e |-> err]))))
RefOtherIncluded(n, tocheck, depth, collapse) ==
    CASE n.k = "Empty" -> [r |-> FALSE, p |-> <<EMPTY>>, e |-> ""]
      [] n.k = "Terminal" -> [r |-> FALSE, p |-> n.hash, e |-> ""]
      [] n.k = "Unknown" -> [r |-> FALSE, p |-> flip_invalid(n.hash), e |-> ""]
      [] n.k = "Middle" ->
            IF collapse THEN [r |-> FALSE, p |-> flip_invalid(n.hash), e |-> ""]
            ELSE Bind(is_double(n), LAMBDA d :
                 IF d = "SetError" THEN [r |-> FALSE, p |-> <<>>, e |-> "SetError"]
                     ELSE IF d = "no"
                          THEN [r |-> FALSE, p |-> flip_invalid(n.hash), e |-> ""]
                          ELSE RefIsIncluded(n, tocheck, depth))

\* ReferenceMerkleSet methods on a root node
RefGetRoot(rootnode) == rootnode.hash
RefAddAlreadyHashed(rootnode, toadd) == RefAdd(rootnode, flip_terminal(toadd), 0)
RefRemoveAlreadyHashed(rootnode, toremove) == RefRemove(rootnode, flip_terminal(toremove), 0)
RefIsIncludedAlreadyHashed(rootnode, tocheck) ==
    Bind(RefIsIncluded(rootnode, flip_terminal(tocheck), 0), LAMBDA x :
    [r |-> x.r, p |-> x.p, e |-> x.e])

\* ------------------------------------------------------ MerkleSet: the arena
VARIABLES
    branch_depth,       \* len(self.subblock_lengths) - 1, the constructor's depth
    leaf_units,         \* self.leaf_units
    root,               \* self.root, 32 bytes
    rootblock,          \* self.rootblock: a handle, 0 for None
    pointers_to_arrays, \* self.pointers_to_arrays: handle -> block
    failed,             \* the assertion that failed inside the last call, "" if none
    refroot,            \* the root node of the ReferenceMerkleSet run in lock-step
    eager,              \* a twin MerkleSet whose root is read after every mutation
    members,            \* the elements added and not removed since
    calls,              \* the number of add / remove calls made
    last,               \* what the last add / remove call was
    undo,               \* the elements of a round trip and the root read before each
    before              \* what could be observed before a call that repeats another

vars == <<branch_depth, leaf_units, root, rootblock, pointers_to_arrays, failed,
          refroot, eager, members, calls, last, undo, before>>

\* self.subblock_lengths[m]
RECURSIVE subblock_lengths(_)
subblock_lengths(m) == IF m = 0 THEN 10 ELSE 64 + 2 * subblock_lengths(m - 1)

\* byte offsets of the nodes and of the bottom references of patricia[moddepth]
RECURSIVE NodeOffsets(_, _)
NodeOffsets(pos, moddepth) ==
    IF moddepth = 0 THEN {}
    ELSE {pos} \cup NodeOffsets(pos + 64, moddepth - 1)
               \cup NodeOffsets(pos + 64 + subblock_lengths(moddepth - 1), moddepth - 1)
RECURSIVE BottomOffsets(_, _)
BottomOffsets(pos, moddepth) ==
    IF moddepth = 0 THEN {pos}
    ELSE BottomOffsets(pos + 64, moddepth - 1)
         \cup BottomOffsets(pos + 64 + subblock_lengths(moddepth - 1), moddepth - 1)

NoRef == [child |-> 0, pos |-> 0]

\* The memory the recursive calls work on: the arena and the first assertion
\* that failed since the call began.
\* nest counts the promotions of a full leaf that the call is nested in
Mem(pa) == [pa |-> pa, err |-> "", nest |-> 0]
Check(M, cond, label) == IF cond \/ M.err # "" THEN M ELSE [M EXCEPT !.err = label]

\* id() of a new object: the lowest handle not in use
NewHandle(M) == CHOOSE h \in 1 .. (Cardinality(DOMAIN M.pa) + 1) : h \notin DOMAIN M.pa

\* _allocate_branch: [m, h]
_allocate_branch(M) ==
    Bind(NewHandle(M), LAMBDA h :
    Bind([leaf |-> FALSE,
              active |-> 0,
              slot |-> [o \in UNION {{p, p + 32} : p \in NodeOffsets(8, branch_depth)} |-> BLANK],
              out |-> [o \in BottomOffsets(8, branch_depth) |-> NoRef]], LAMBDA b :
    [m |-> [M EXCEPT !.pa = (h :> b) @@ M.pa], h |-> h]))

FreeCell(next) == [s0 |-> RawLink(next), s1 |-> BLANK, p0 |-> 0, p1 |-> 0]

\* _allocate_leaf: [m, h]
_allocate_leaf(M) ==
    Bind(NewHandle(M), LAMBDA h :
    Bind([leaf |-> TRUE,
              first_unused |-> 0,
              num_inputs |-> 0,
              cell |-> [i \in 0 .. (leaf_units - 1) |->
                          FreeCell(IF i # leaf_units - 1 THEN i + 1 ELSE NOPOS)]], LAMBDA l :
    [m |-> [M EXCEPT !.pa = (h :> l) @@ M.pa], h |-> h]))

\* a block that is dropped but stays in the arena
_deallocate_leak(M, h) == M

_deallocate(M, h) ==
    [M EXCEPT !.pa = [x \in DOMAIN M.pa \ {h} |-> M.pa[x]]]

\* block[pos:pos + 32] in a branch, leaf[rpos + 32 * side:...] in a leaf
Slot(M, b, pos) == M.pa[b].slot[pos]
SetSlot(M, b, pos, v) == [M EXCEPT !.pa[b].slot[pos] = v]
LSlot(M, l, pos, side) == IF side = 0 THEN M.pa[l].cell[pos].s0 ELSE M.pa[l].cell[pos].s1
SetLSlot(M, l, pos, side, v) ==
    IF side = 0 THEN [M EXCEPT !.pa[l].cell[pos].s0 = v]
                ELSE [M EXCEPT !.pa[l].cell[pos].s1 = v]
\* the one-based child pointer of a leaf node: leaf[rpos + 64 + 2 * side:...]
LPtr(M, l, pos, side) == IF side = 0 THEN M.pa[l].cell[pos].p0 ELSE M.pa[l].cell[pos].p1
SetLPtr(M, l, pos, side, v) ==
    IF side = 0 THEN [M EXCEPT !.pa[l].cell[pos].p0 = v]
                ELSE [M EXCEPT !.pa[l].cell[pos].p1 = v]
\* the offset of the inline child of a branch node
ChildPos(pos, moddepth, side) ==
    IF side = 0 THEN pos + 64 ELSE pos + 64 + subblock_lengths(moddepth - 1)

\* ------------------------------------------------------- lazy recomputation
RECURSIVE _force_calculation_leaf(_, _, _)
\* a recomputation that stores the hash of the right child in the left slot
_force_calculation_leaf_swapped(M, block, pos) ==
    Bind(IF get_type(LSlot(M, block, pos, 0)) = INVALID
             THEN Bind(_force_calculation_leaf(M, block, LPtr(M, block, pos, 0) - 1), LAMBDA r :
                  SetLSlot(r.m, block, pos, 0, r.v))
             ELSE M, LAMBDA a :
    Bind(IF get_type(LSlot(a, block, pos, 1)) = INVALID
             THEN Bind(_force_calculation_leaf(a, block, LPtr(a, block, pos, 1) - 1), LAMBDA r :
                  SetLSlot(r.m, block, pos, 0, r.v))
             ELSE a, LAMBDA b :
    Bind(LSlot(b, block, pos, 0), LAMBDA v0 :
    Bind(LSlot(b, block, pos, 1), LAMBDA v1 :
    [m |-> Check(b, HasherPre(v0, v1), "hasher"), v |-> hasher(v0, v1)]))))

_force_calculation_leaf(M, block, pos) ==
    Bind(IF get_type(LSlot(M, block, pos, 0)) = INVALID
             THEN Bind(_force_calculation_leaf(M, block, LPtr(M, block, pos, 0) - 1), LAMBDA r :
                  SetLSlot(r.m, block, pos, 0, r.v))
             ELSE M, LAMBDA a :
    Bind(IF get_type(LSlot(a, block, pos, 1)) = INVALID
             THEN Bind(_force_calculation_leaf(a, block, LPtr(a, block, pos, 1) - 1), LAMBDA r :
                  SetLSlot(r.m, block, pos, 1, r.v))
             ELSE a, LAMBDA b :
    Bind(LSlot(b, block, pos, 0), LAMBDA v0 :
    Bind(LSlot(b, block, pos, 1), LAMBDA v1 :
    [m |-> Check(b, HasherPre(v0, v1), "hasher"), v |-> hasher(v0, v1)]))))

RECURSIVE _force_calculation_branch(_, _, _, _)
_force_calculation_branch(M, block, pos, moddepth) ==
    IF moddepth = 0
    THEN Bind(M.pa[block].out[pos].child, LAMBDA block2 :
         Bind(M.pa[block].out[pos].pos, LAMBDA p :
         IF p = NOPOS
             THEN _force_calculation_branch(M, block2, 8, branch_depth)
             ELSE _force_calculation_leaf(M, block2, p)))
    ELSE Bind(IF get_type(Slot(M, block, pos)) = INVALID
                  THEN Bind(_force_calculation_branch(M, block, pos + 64, moddepth - 1), LAMBDA r :
                       SetSlot(r.m, block, pos, r.v))
                  ELSE M, LAMBDA a :
         Bind(IF get_type(Slot(a, block, pos + 32)) = INVALID
                  THEN Bind(_force_calculation_branch(a, block,
                                    pos + 64 + subblock_lengths(moddepth - 1), moddepth - 1), LAMBDA r :
                       SetSlot(r.m, block, pos + 32, r.v))
                  ELSE a, LAMBDA b :
         Bind(Slot(b, block, pos), LAMBDA v0 :
         Bind(Slot(b, block, pos + 32), LAMBDA v1 :
         [m |-> Check(b, HasherPre(v0, v1), "hasher"), v |-> hasher(v0, v1)]))))

\* A MerkleSet object: [root, rootblock, pa, err]
NewSet == [root |-> BLANK, rootblock |-> 0, pa |-> << >>, err |-> ""]

\* the root slot as it is, hashes not recomputed
get_root_stale(s) == [s |-> s, v |-> s.root]

\* get_root: [s, v]: the object afterwards and the bytes returned
get_root(s) ==
    IF get_type(s.root) = INVALID
    THEN Bind(_force_calculation_branch([pa |-> s.pa, err |-> s.err, nest |-> 0], s.rootblock, 8,
                                            branch_depth), LAMBDA r :
         Bind([s EXCEPT !.root = r.v, !.pa = r.m.pa, !.err = r.m.err], LAMBDA t :
         [s |-> t, v |-> t.root]))
    ELSE [s |-> s, v |-> s.root]

\* ----------------------------------------------------------------- insertion
\* a slot that is marked as holding a hash when the node below it changes
MakeInvalid_kept(M, b, pos) == SetSlot(M, b, pos, flip_middle(Slot(M, b, pos)))

\* make_invalid on a slot, with its assertion
MakeInvalid(M, b, pos) ==
    SetSlot(Check(M, get_type(Slot(M, b, pos)) # INVALID, "make_invalid"), b, pos,
            make_invalid(Slot(M, b, pos)))
LMakeInvalid(M, l, pos, side) ==
    SetLSlot(Check(M, get_type(LSlot(M, l, pos, side)) # INVALID, "make_invalid"), l, pos,
             side, make_invalid(LSlot(M, l, pos, side)))

\* two strings left in the order they came in
Sort2_unsorted(a, b) == <<a, b>>

\* things.sort() for two or three strings
Sort2(a, b) == IF BytesLess(b, a) THEN <<b, a>> ELSE <<a, b>>
\* the strings left in the order they came in
SortThings_unsorted(things) == things

SortThings(things) ==
    IF Len(things) = 2 THEN Sort2(things[1], things[2])
    ELSE Bind(Sort2(things[1], things[2]), LAMBDA x :
         Bind(things[3], LAMBDA c :
         IF BytesLess(c, x[1]) THEN <<c, x[1], x[2]>>
             ELSE IF BytesLess(c, x[2]) THEN <<x[1], c, x[2]>>
             ELSE <<x[1], x[2], c>>))

\* _insert_leaf: [m, r, pos]; r is INVALIDATING or FULL
RECURSIVE _insert_leaf(_, _, _, _)
_insert_leaf(M, unsorted, leaf, depth) ==
    Bind(M.pa[leaf].first_unused, LAMBDA pos :
    IF pos = NOPOS THEN [m |-> M, r |-> FULL, pos |-> NOPOS]
        ELSE
        Bind([M EXCEPT !.pa[leaf].first_unused = First2(M.pa[leaf].cell[pos].s0)], LAMBDA M1 :
        Bind(SortThings(unsorted), LAMBDA things :
        Bind(get_bit(things[1], depth), LAMBDA b1 :
        Bind(get_bit(things[2], depth), LAMBDA b2 :
        Bind(get_bit(things[3], depth), LAMBDA b3 :
        LET full(x) == [m |-> [x.m EXCEPT !.pa[leaf].first_unused = pos],
                        r |-> FULL, pos |-> NOPOS]
        IN  IF Len(things) = 2
            THEN [m |-> SetLSlot(SetLSlot(M1, leaf, pos, 0, things[1]), leaf, pos, 1, things[2]),
                  r |-> INVALIDATING, pos |-> pos]
            ELSE IF b1 = b2 /\ b2 = b3
            THEN Bind(_insert_leaf(M1, things, leaf, depth + 1), LAMBDA x :
                 IF x.r = FULL THEN full(x)
                     ELSE IF b1 = 0
                     THEN [m |-> LMakeInvalid(SetLPtr(x.m, leaf, pos, 0, x.pos + 1), leaf, pos, 0),
                           r |-> INVALIDATING, pos |-> pos]
                     ELSE Bind(LMakeInvalid(SetLPtr(x.m, leaf, pos, 1, x.pos + 1), leaf, pos, 1), LAMBDA y :
                          [m |-> SetLSlot(y, leaf, pos, 0, ZeroFirst2(LSlot(y, leaf, pos, 0))),
                               r |-> INVALIDATING, pos |-> pos]))
            ELSE IF b1 = b2
            THEN Bind(_insert_leaf(M1, <<things[1], things[2]>>, leaf, depth + 1), LAMBDA x :
                 IF x.r = FULL THEN full(x)
                     ELSE [m |-> LMakeInvalid(
                                   SetLPtr(SetLSlot(x.m, leaf, pos, 1, things[3]),
                                           leaf, pos, 0, x.pos + 1),
                                   leaf, pos, 0),
                           r |-> INVALIDATING, pos |-> pos])
            ELSE Bind(_insert_leaf(M1, <<things[2], things[3]>>, leaf, depth + 1), LAMBDA x :
                 IF x.r = FULL THEN full(x)
                     ELSE [m |-> LMakeInvalid(
                                   SetLPtr(SetLSlot(x.m, leaf, pos, 0, things[1]),
                                           leaf, pos, 1, x.pos + 1),
                                   leaf, pos, 1),
                           r |-> INVALIDATING, pos |-> pos])))))))

\* _insert_branch: the memory afterwards
RECURSIVE _insert_branch(_, _, _, _, _, _)
_insert_branch(M, unsorted, block, pos, depth, moddepth) ==
    IF moddepth = 0
    THEN Bind(M.pa[block].active, LAMBDA child :
         Bind(IF child # 0 THEN _insert_leaf(M, unsorted, child, depth)
                      ELSE [m |-> M, r |-> FULL, pos |-> NOPOS], LAMBDA first :
         IF first.r # FULL
             THEN [first.m EXCEPT !.pa[child].num_inputs = @ + 1,
                                  !.pa[block].out[pos] = [child |-> child, pos |-> first.pos]]
             ELSE Bind(_allocate_leaf(first.m), LAMBDA al :
                  Bind(_insert_leaf(al.m, unsorted, al.h, depth), LAMBDA second :
                  IF second.r = FULL
                      THEN Bind(_allocate_branch(_deallocate(second.m, al.h)), LAMBDA nb :
                           Bind([nb.m EXCEPT !.pa[block].out[pos] =
                                                         [child |-> nb.h, pos |-> NOPOS]], LAMBDA linked :
                           _insert_branch(linked, unsorted, nb.h, 8, depth, branch_depth)))
                      ELSE [second.m EXCEPT !.pa[block].active = al.h,
                                            !.pa[al.h].num_inputs = @ + 1,
                                            !.pa[block].out[pos] =
                                                [child |-> al.h, pos |-> second.pos]]))))
    ELSE Bind(SortThings(unsorted), LAMBDA things :
         Bind(get_bit(things[1], depth), LAMBDA b1 :
         Bind(get_bit(things[2], depth), LAMBDA b2 :
         Bind(get_bit(things[3], depth), LAMBDA b3 :
         IF Len(things) = 2
             THEN SetSlot(SetSlot(M, block, pos, things[1]), block, pos + 32, things[2])
             ELSE IF b1 = b2 /\ b2 = b3
             THEN IF b1 = 0
                  THEN MakeInvalid(_insert_branch(M, things, block, ChildPos(pos, moddepth, 0),
                                                  depth + 1, moddepth - 1), block, pos)
                  ELSE MakeInvalid(_insert_branch(M, things, block, ChildPos(pos, moddepth, 1),
                                                  depth + 1, moddepth - 1), block, pos + 32)
             ELSE IF b1 = b2
             THEN MakeInvalid(
                    _insert_branch(SetSlot(M, block, pos + 32, things[3]),
                                   <<things[1], things[2]>>, block, ChildPos(pos, moddepth, 0),
                                   depth + 1, moddepth - 1),
                    block, pos)
             ELSE MakeInvalid(
                    _insert_branch(SetSlot(M, block, pos, things[1]),
                                   <<things[2], things[3]>>, block, ChildPos(pos, moddepth, 1),
                                   depth + 1, moddepth - 1),
                    block, pos + 32)))))

\* a _delete_from_leaf that leaves the cells as they are
_delete_from_leaf_kept(M, leaf, pos) == M

\* _delete_from_leaf: the memory afterwards
RECURSIVE _delete_from_leaf(_, _, _)
_delete_from_leaf(M, leaf, pos) ==
    Bind(IF get_type(LSlot(M, leaf, pos, 0)) \in {MIDDLE, INVALID}
             THEN _delete_from_leaf(M, leaf, LPtr(M, leaf, pos, 0) - 1)
             ELSE M, LAMBDA a :
    Bind(IF get_type(LSlot(a, leaf, pos, 1)) \in {MIDDLE, INVALID}
             THEN _delete_from_leaf(a, leaf, LPtr(a, leaf, pos, 1) - 1)
             ELSE a, LAMBDA b :
    [b EXCEPT !.pa[leaf].cell[pos] = FreeCell(b.pa[leaf].first_unused),
                  !.pa[leaf].first_unused = pos]))

\* _copy_between_leafs_inner: [m, r, pos]; r is DONE or FULL
RECURSIVE _copy_between_leafs_inner(_, _, _, _)
_copy_between_leafs_inner(M, fromleaf, toleaf, frompos) ==
    Bind(M.pa[toleaf].first_unused, LAMBDA topos :
    IF topos = NOPOS THEN [m |-> M, r |-> FULL, pos |-> NOPOS]
        ELSE
        Bind([M EXCEPT !.pa[toleaf].first_unused = First2(M.pa[toleaf].cell[topos].s0)], LAMBDA M1 :
        Bind(get_type(LSlot(M1, fromleaf, frompos, 0)), LAMBDA t0 :
        Bind(get_type(LSlot(M1, fromleaf, frompos, 1)), LAMBDA t1 :
        Bind(IF t0 \in {MIDDLE, INVALID}
                   THEN _copy_between_leafs_inner(M1, fromleaf, toleaf,
                                                  LPtr(M1, fromleaf, frompos, 0) - 1)
                   ELSE [m |-> M1, r |-> DONE, pos |-> NOPOS], LAMBDA low :
        Bind(IF t1 \in {MIDDLE, INVALID}
                    THEN _copy_between_leafs_inner(low.m, fromleaf, toleaf,
                                                   LPtr(low.m, fromleaf, frompos, 1) - 1)
                    ELSE [m |-> low.m, r |-> DONE, pos |-> NOPOS], LAMBDA high :
        LET giveup(x) == Bind(Check(x, x.pa[toleaf].first_unused = First2(x.pa[toleaf].cell[topos].s0),
                               "_copy_between_leafs_inner"), LAMBDA y :
[m |-> [y EXCEPT !.pa[toleaf].first_unused = topos],
                     r |-> FULL, pos |-> NOPOS])
        IN  IF low.r = FULL THEN giveup(low.m)
            ELSE IF high.r = FULL
            THEN giveup(IF t0 \in {MIDDLE, INVALID}
                        THEN _delete_from_leaf(high.m, toleaf, low.pos)
                        ELSE high.m)
            ELSE Bind(SetLSlot(SetLSlot(high.m, toleaf, topos, 0,
                                            LSlot(high.m, fromleaf, frompos, 0)),
                                   toleaf, topos, 1, LSlot(high.m, fromleaf, frompos, 1)), LAMBDA a :
                 Bind(IF low.pos # NOPOS THEN SetLPtr(a, toleaf, topos, 0, low.pos + 1) ELSE a, LAMBDA b :
                 Bind(IF high.pos # NOPOS THEN SetLPtr(b, toleaf, topos, 1, high.pos + 1) ELSE b, LAMBDA c :
                 [m |-> c, r |-> DONE, pos |-> topos])))))))))

\* a _copy_between_leafs that copies and then says that toleaf had no room
_copy_between_leafs_full(M, fromleaf, toleaf, frompos) ==
    Bind(_copy_between_leafs_inner(M, fromleaf, toleaf, frompos), LAMBDA x :
    IF x.r = DONE
        THEN [m |-> [x.m EXCEPT !.pa[toleaf].num_inputs = @ + 1,
                                !.pa[fromleaf].num_inputs = @ - 1],
              r |-> FULL, pos |-> x.pos]
        ELSE x)

\* _copy_between_leafs: [m, r, pos]
_copy_between_leafs(M, fromleaf, toleaf, frompos) ==
    Bind(_copy_between_leafs_inner(M, fromleaf, toleaf, frompos), LAMBDA x :
    IF x.r = DONE
        THEN [x EXCEPT !.m = [x.m EXCEPT !.pa[toleaf].num_inputs = @ + 1,
                                         !.pa[fromleaf].num_inputs = @ - 1]]
        ELSE x)

\* _copy_leaf_to_branch: the memory afterwards
RECURSIVE _copy_leaf_to_branch(_, _, _, _, _, _)
_copy_leaf_to_branch(M, branch, branchpos, moddepth, leaf, leafpos) ==
    IF moddepth = 0
    THEN Bind(IF M.pa[branch].active = 0
                   THEN Bind(_allocate_leaf(M), LAMBDA n :
                        [m |-> [n.m EXCEPT !.pa[branch].active = n.h], h |-> n.h])
                   ELSE [m |-> M, h |-> M.pa[branch].active], LAMBDA al :
         Bind(_copy_between_leafs_inner(al.m, leaf, al.h, leafpos), LAMBDA x :
         Bind(Check(x.m, x.r = DONE, "_copy_leaf_to_branch"), LAMBDA y :
         [y EXCEPT !.pa[al.h].num_inputs = @ + 1,
                       !.pa[branch].out[branchpos] = [child |-> al.h, pos |-> x.pos]])))
    ELSE Bind(SetSlot(SetSlot(M, branch, branchpos, LSlot(M, leaf, leafpos, 0)),
                          branch, branchpos + 32, LSlot(M, leaf, leafpos, 1)), LAMBDA a :
         Bind(IF get_type(LSlot(a, leaf, leafpos, 0)) \in {MIDDLE, INVALID}
                  THEN _copy_leaf_to_branch(a, branch, ChildPos(branchpos, moddepth, 0),
                                            moddepth - 1, leaf, LPtr(a, leaf, leafpos, 0) - 1)
                  ELSE a, LAMBDA b :
         IF get_type(LSlot(b, leaf, leafpos, 1)) \in {MIDDLE, INVALID}
             THEN _copy_leaf_to_branch(b, branch, ChildPos(branchpos, moddepth, 1),
                                       moddepth - 1, leaf, LPtr(b, leaf, leafpos, 1) - 1)
             ELSE b))

\* _add_to_leaf_inner: [m, r]; r is INVALIDATING, DONE or FULL
RECURSIVE _add_to_leaf_inner(_, _, _, _, _)
_add_to_leaf_inner(M, toadd, leaf, pos, depth) ==
    Bind(get_bit(toadd, depth), LAMBDA bit :
    Bind(get_type(LSlot(M, leaf, pos, bit)), LAMBDA t :
    Bind(LSlot(M, leaf, pos, bit), LAMBDA own :
    Bind(LSlot(M, leaf, pos, 1 - bit), LAMBDA other :
    Bind(LSlot(M, leaf, pos, 0), LAMBDA oldval0 :
    Bind(LSlot(M, leaf, pos, 1), LAMBDA oldval1 :
    IF t = EMPTY
        THEN [m |-> SetLSlot(M, leaf, pos, bit, toadd), r |-> INVALIDATING]
        ELSE IF t = TERMINAL
        THEN IF own = toadd THEN [m |-> M, r |-> DONE]
             ELSE IF get_type(other) = TERMINAL
             THEN IF toadd = other THEN [m |-> M, r |-> DONE]
                  ELSE Bind(M.pa[leaf].first_unused, LAMBDA nextpos :
                       Bind([M EXCEPT !.pa[leaf].first_unused = pos,
                                          !.pa[leaf].cell[pos].s0 = RawLink(nextpos),
                                          !.pa[leaf].cell[pos].s1 = BLANK], LAMBDA a :
                       Bind(_insert_leaf(a, <<toadd, oldval0, oldval1>>, leaf, depth), LAMBDA x :
                       IF x.r = FULL
                           THEN [m |-> [x.m EXCEPT !.pa[leaf].first_unused = nextpos,
                                                   !.pa[leaf].cell[pos].s0 = oldval0,
                                                   !.pa[leaf].cell[pos].s1 = oldval1],
                                 r |-> FULL]
                           ELSE [m |-> Check(x.m, x.pos = pos, "_add_to_leaf_inner"),
                                 r |-> INVALIDATING])))
             ELSE Bind(_insert_leaf(M, <<toadd, own>>, leaf, depth + 1), LAMBDA x :
                  IF x.r = FULL THEN [m |-> x.m, r |-> FULL]
                      ELSE Bind(LMakeInvalid(SetLPtr(x.m, leaf, pos, bit, x.pos + 1),
                                                 leaf, pos, bit), LAMBDA y :
                           IF get_type(LSlot(y, leaf, pos, 1 - bit)) = INVALID
                               THEN [m |-> y, r |-> DONE]
                               ELSE [m |-> y, r |-> INVALIDATING]))
        ELSE Bind(_add_to_leaf_inner(M, toadd, leaf, LPtr(M, leaf, pos, bit) - 1, depth + 1), LAMBDA x :
             IF x.r = INVALIDATING
                 THEN IF t = MIDDLE
                      THEN [m |-> LMakeInvalid(x.m, leaf, pos, bit), r |-> INVALIDATING]
                      ELSE [m |-> x.m, r |-> DONE]
                 ELSE x)))))))

\* _add_to_leaf, _add_to_branch_inner, _add_to_branch: [m, r]
RECURSIVE _add_to_leaf(_, _, _, _, _, _, _)
RECURSIVE _add_to_branch_inner(_, _, _, _, _, _)
RECURSIVE _add_to_branch(_, _, _, _)

_add_to_leaf(M, toadd, branch, branchpos, leaf, leafpos, depth) ==
    Bind(_add_to_leaf_inner(M, toadd, leaf, leafpos, depth), LAMBDA x :
    IF x.r # FULL THEN x
        ELSE IF x.m.pa[leaf].num_inputs = 1
        THEN \* the leaf is full and has one input: replace it with a branch
             IF x.m.nest >= MaxNesting
             THEN \* RecursionError: maximum recursion depth exceeded
                  [m |-> Check(x.m, FALSE, "RecursionError"), r |-> INVALIDATING]
             ELSE
             Bind(_allocate_branch(x.m), LAMBDA nb :
             Bind(_copy_leaf_to_branch(nb.m, nb.h, 8, branch_depth, leaf, leafpos), LAMBDA a :
             Bind(_add_to_branch([a EXCEPT !.nest = @ + 1], toadd, nb.h, depth).m, LAMBDA b :
             Bind([b EXCEPT !.pa[branch].out[branchpos] = [child |-> nb.h, pos |-> NOPOS],
                            !.nest = x.m.nest], LAMBDA c :
             Bind(IF c.pa[branch].active = leaf
                      THEN [c EXCEPT !.pa[branch].active = 0]
                      ELSE c, LAMBDA d :
             [m |-> _deallocate(d, leaf), r |-> INVALIDATING])))))
        ELSE Bind(x.m.pa[branch].active, LAMBDA act :
             Bind(IF act = 0 \/ act = leaf THEN _allocate_leaf(x.m)
                       ELSE [m |-> x.m, h |-> act], LAMBDA al :
             Bind(_copy_between_leafs(al.m, leaf, al.h, leafpos), LAMBDA first :
             Bind(IF first.r # DONE THEN _allocate_leaf(first.m) ELSE al, LAMBDA al2 :
             Bind(IF first.r # DONE
                           THEN Bind(_copy_between_leafs(al2.m, leaf, al2.h, leafpos), LAMBDA y :
                                [y EXCEPT !.m = Check(y.m, y.r = DONE, "_add_to_leaf")])
                           ELSE first, LAMBDA second :
             Bind(al2.h, LAMBDA active :
             Bind([second.m EXCEPT !.pa[branch].out[branchpos].child = active], LAMBDA a :
             Bind(IF a.pa[branch].active # active
                      THEN [a EXCEPT !.pa[branch].active = active]
                      ELSE a, LAMBDA b :
             Bind([b EXCEPT !.pa[branch].out[branchpos].pos = second.pos], LAMBDA c :
             Bind(_delete_from_leaf(c, leaf, leafpos), LAMBDA d :
             _add_to_leaf(d, toadd, branch, branchpos, active, second.pos, depth))))))))))))

_add_to_branch_inner(M, toadd, block, pos, depth, moddepth) ==
    IF moddepth = 0
    THEN Bind(M.pa[block].out[pos].child, LAMBDA nextblock :
         Bind(M.pa[block].out[pos].pos, LAMBDA nextpos :
         IF nextblock = 0 THEN [m |-> M, r |-> NOTSTARTED]
             ELSE IF nextpos = NOPOS THEN _add_to_branch(M, toadd, nextblock, depth)
             ELSE _add_to_leaf(M, toadd, block, pos, nextblock, nextpos, depth)))
    ELSE Bind(get_bit(toadd, depth), LAMBDA bit :
         Bind(pos + 32 * bit, LAMBDA ownpos :
         Bind(pos + 32 * (1 - bit), LAMBDA otherpos :
         Bind(_add_to_branch_inner(M, toadd, block, ChildPos(pos, moddepth, bit),
                                       depth + 1, moddepth - 1), LAMBDA x :
         Bind(x.m, LAMBDA N :
         Bind(get_type(Slot(N, block, ownpos)), LAMBDA town :
         Bind(get_type(Slot(N, block, otherpos)), LAMBDA tother :
         Bind(Slot(N, block, ownpos), LAMBDA vown :
         Bind(Slot(N, block, otherpos), LAMBDA vother :
         Bind(Slot(N, block, pos), LAMBDA v0 :
         Bind(Slot(N, block, pos + 32), LAMBDA v1 :
         LET after(Y) == [m |-> Y, r |-> IF tother # INVALID THEN INVALIDATING ELSE DONE]
         IN  IF x.r = INVALIDATING
             THEN IF town # INVALID
                  THEN [m |-> MakeInvalid(N, block, ownpos),
                        r |-> IF tother # INVALID THEN INVALIDATING ELSE DONE]
                  ELSE [m |-> N, r |-> DONE]
             ELSE IF x.r = DONE THEN [m |-> N, r |-> DONE]
             ELSE IF town = EMPTY
             THEN IF tother = EMPTY THEN [m |-> N, r |-> NOTSTARTED]
                  ELSE after(SetSlot(N, block, ownpos, toadd))
             ELSE Bind(Check(N, town = TERMINAL, "_add_to_branch_inner"), LAMBDA N1 :
                  IF vown = toadd THEN [m |-> N1, r |-> DONE]
                      ELSE IF tother = TERMINAL
                      THEN IF vother = toadd THEN [m |-> N1, r |-> DONE]
                           ELSE after(_insert_branch(SetSlot(N1, block, otherpos, BLANK),
                                                     <<toadd, v0, v1>>, block, pos, depth,
                                                     moddepth))
                      ELSE after(MakeInvalid(
                                   _insert_branch(N1, <<toadd, vown>>, block,
                                                  ChildPos(pos, moddepth, bit), depth + 1,
                                                  moddepth - 1),
                                   block, ownpos))))))))))))))

_add_to_branch(M, toadd, block, depth) ==
    _add_to_branch_inner(M, toadd, block, 8, depth, branch_depth)

\* _add: the object afterwards
_add(s, toadd) ==
    Bind(get_type(s.root), LAMBDA t :
    Bind([pa |-> s.pa, err |-> s.err, nest |-> 0], LAMBDA M :
    IF t = EMPTY THEN [s EXCEPT !.root = toadd]
        ELSE IF t = TERMINAL
        THEN IF toadd = s.root THEN s
             ELSE Bind(_allocate_branch(M), LAMBDA nb :
                  Bind(_insert_branch(nb.m, <<s.root, toadd>>, nb.h, 8, 0, branch_depth), LAMBDA a :
                  Bind(Check(a, get_type(s.root) # INVALID, "make_invalid"), LAMBDA b :
                  [root |-> make_invalid(s.root), rootblock |-> nb.h,
                       pa |-> b.pa, err |-> b.err])))
        ELSE Bind(_add_to_branch(M, toadd, s.rootblock, 0), LAMBDA x :
             [root |-> IF x.r = INVALIDATING /\ get_type(s.root) # INVALID
                           THEN make_invalid(s.root) ELSE s.root,
                  rootblock |-> s.rootblock, pa |-> x.m.pa, err |-> x.m.err])))

\* an add that marks the root slot INVALID whether or not the set changed
add_relazy(s, toadd) ==
    Bind(_add(s, flip_terminal(toadd)), LAMBDA t :
    IF get_type(t.root) = MIDDLE THEN [t EXCEPT !.root = make_invalid(t.root)] ELSE t)

\* the insertion of the string as given, its type bits not set to TERMINAL
add_unflipped(s, toadd) == _add(s, toadd)

add_already_hashed(s, toadd) == _add(s, flip_terminal(toadd))

\* ------------------------------------------------------------------ collapse
\* A collapse returns [m, r]: r is the pair of TERMINAL strings, << >> for None.
\* a node of a leaf that is dropped without its cell going back on the free list
_deallocate_leaf_node_lost(M, leaf, pos) == M

_deallocate_leaf_node(M, leaf, pos) ==
    [M EXCEPT !.pa[leaf].cell[pos] = FreeCell(M.pa[leaf].first_unused),
              !.pa[leaf].first_unused = pos]

RECURSIVE _collapse_leaf_inner(_, _, _)
_collapse_leaf_inner(M, leaf, pos) ==
    Bind(get_type(LSlot(M, leaf, pos, 0)), LAMBDA t0 :
    Bind(get_type(LSlot(M, leaf, pos, 1)), LAMBDA t1 :
    Bind(IF t0 = TERMINAL /\ t1 = TERMINAL
             THEN [m |-> M, r |-> <<LSlot(M, leaf, pos, 0), LSlot(M, leaf, pos, 1)>>]
             ELSE IF t0 = EMPTY THEN _collapse_leaf_inner(M, leaf, LPtr(M, leaf, pos, 1) - 1)
             ELSE IF t1 = EMPTY THEN _collapse_leaf_inner(M, leaf, LPtr(M, leaf, pos, 0) - 1)
             ELSE [m |-> M, r |-> << >>], LAMBDA x :
    IF Len(x.r) # 0
        THEN [m |-> _deallocate_leaf_node(x.m, leaf, pos), r |-> x.r]
        ELSE x)))

\* a _collapse_leaf that neither counts the input down nor drops the leaf
_collapse_leaf_counted(M, leaf, pos, branch) == _collapse_leaf_inner(M, leaf, pos)

_collapse_leaf(M, leaf, pos, branch) ==
    Bind(_collapse_leaf_inner(M, leaf, pos), LAMBDA x :
    Bind(x.m.pa[leaf].num_inputs, LAMBDA inputs :
    IF Len(x.r) # 0
        THEN IF inputs = 1
             THEN Bind(_deallocate(x.m, leaf), LAMBDA a :
                  [m |-> IF a.pa[branch].active = leaf
                             THEN [a EXCEPT !.pa[branch].active = 0] ELSE a,
                       r |-> x.r])
             ELSE [m |-> [x.m EXCEPT !.pa[leaf].num_inputs = inputs - 1], r |-> x.r]
        ELSE x))

\* a leaf node that takes up the pair below it and keeps its child pointer
_catch_leaf_stale(M, leaf, pos) ==
    Bind(get_type(LSlot(M, leaf, pos, 0)), LAMBDA t0 :
    Bind(get_type(LSlot(M, leaf, pos, 1)), LAMBDA t1 :
    LET caught(x, side) == IF Len(x.r) # 0
            THEN SetLSlot(SetLSlot(x.m, leaf, pos, 0, x.r[1]), leaf, pos, 1, x.r[2])
            ELSE x.m
    IN  IF t0 = EMPTY
        THEN caught(_collapse_leaf_inner(M, leaf, LPtr(M, leaf, pos, 1) - 1), 1)
        ELSE IF t1 = EMPTY
        THEN caught(_collapse_leaf_inner(M, leaf, LPtr(M, leaf, pos, 0) - 1), 0)
        ELSE M))

_catch_leaf(M, leaf, pos) ==
    Bind(get_type(LSlot(M, leaf, pos, 0)), LAMBDA t0 :
    Bind(get_type(LSlot(M, leaf, pos, 1)), LAMBDA t1 :
    LET caught(x, side) == IF Len(x.r) # 0
            THEN SetLSlot(SetLSlot(SetLPtr(x.m, leaf, pos, side, 0), leaf, pos, 0, x.r[1]),
                          leaf, pos, 1, x.r[2])
            ELSE x.m
    IN  IF t0 = EMPTY
        THEN caught(_collapse_leaf_inner(M, leaf, LPtr(M, leaf, pos, 1) - 1), 1)
        ELSE IF t1 = EMPTY
        THEN caught(_collapse_leaf_inner(M, leaf, LPtr(M, leaf, pos, 0) - 1), 0)
        ELSE M))

RECURSIVE _collapse_branch_inner(_, _, _, _)
RECURSIVE _collapse_branch(_, _)
_collapse_branch_inner(M, block, pos, moddepth) ==
    IF moddepth = 0
    THEN Bind(M.pa[block].out[pos], LAMBDA o :
         Bind(IF o.pos = NOPOS THEN _collapse_branch(M, o.child)
                  ELSE _collapse_leaf(M, o.child, o.pos, block), LAMBDA x :
         IF Len(x.r) # 0
             THEN [m |-> [x.m EXCEPT !.pa[block].out[pos] = NoRef], r |-> x.r]
             ELSE x))
    ELSE Bind(get_type(Slot(M, block, pos)), LAMBDA t0 :
         Bind(get_type(Slot(M, block, pos + 32)), LAMBDA t1 :
         IF t0 = TERMINAL /\ t1 = TERMINAL
             THEN [m |-> SetSlot(SetSlot(M, block, pos, BLANK), block, pos + 32, BLANK),
                   r |-> <<Slot(M, block, pos), Slot(M, block, pos + 32)>>]
             ELSE IF t0 = EMPTY
             THEN Bind(_collapse_branch_inner(M, block, ChildPos(pos, moddepth, 1),
                                                  moddepth - 1), LAMBDA x :
                  IF Len(x.r) # 0
                      THEN [m |-> SetSlot(x.m, block, pos + 32, BLANK), r |-> x.r]
                      ELSE x)
             ELSE IF t1 = EMPTY
             THEN Bind(_collapse_branch_inner(M, block, ChildPos(pos, moddepth, 0),
                                                  moddepth - 1), LAMBDA x :
                  IF Len(x.r) # 0
                      THEN [m |-> SetSlot(x.m, block, pos, BLANK), r |-> x.r]
                      ELSE x)
             ELSE [m |-> M, r |-> << >>]))
\* a _collapse_branch that drops the block whatever is in it
_collapse_branch_always(M, block) ==
    Bind(_collapse_branch_inner(M, block, 8, branch_depth), LAMBDA x :
    [m |-> _deallocate(x.m, block), r |-> x.r])

_collapse_branch(M, block) ==
    Bind(_collapse_branch_inner(M, block, 8, branch_depth), LAMBDA x :
    IF Len(x.r) # 0 THEN [m |-> _deallocate(x.m, block), r |-> x.r] ELSE x)

\* _catch_branch: the memory afterwards
\* a branch whose lone pair of strings is left where it is
_catch_branch_none(M, block, pos, moddepth) == M

RECURSIVE _catch_branch(_, _, _, _)
_catch_branch(M, block, pos, moddepth) ==
    IF moddepth = 0
    THEN Bind(M.pa[block].out[pos], LAMBDA o :
         IF o.pos = NOPOS THEN _catch_branch(M, o.child, 8, branch_depth)
             ELSE _catch_leaf(M, o.child, o.pos))
    ELSE Bind(get_type(Slot(M, block, pos)), LAMBDA t0 :
         Bind(get_type(Slot(M, block, pos + 32)), LAMBDA t1 :
         LET caught(x) == IF Len(x.r) # 0
                 THEN SetSlot(SetSlot(x.m, block, pos, x.r[1]), block, pos + 32, x.r[2])
                 ELSE x.m
         IN  IF t0 = EMPTY
             THEN caught(_collapse_branch_inner(Check(M, t1 # TERMINAL, "_catch_branch"),
                                                block, ChildPos(pos, moddepth, 1), moddepth - 1))
             ELSE IF t1 = EMPTY
             THEN caught(_collapse_branch_inner(Check(M, t0 # TERMINAL, "_catch_branch"),
                                                block, ChildPos(pos, moddepth, 0), moddepth - 1))
             ELSE M))

\* ------------------------------------------------------------------- removal
\* A removal returns [m, r, val]: the status and, for ONELEFT, the string left.
RECURSIVE _remove_leaf_inner(_, _, _, _, _)
_remove_leaf_inner(M, toremove, block, pos, depth) ==
    Bind(get_bit(toremove, depth), LAMBDA bit :
    Bind(get_type(LSlot(M, block, pos, bit)), LAMBDA t :
    Bind(LSlot(M, block, pos, bit), LAMBDA own :
    Bind(LSlot(M, block, pos, 1 - bit), LAMBDA other :
    LET res(Y, r) == [m |-> Y, r |-> r, val |-> BLANK]
    IN  IF t = EMPTY THEN res(M, DONE)
        ELSE IF t = TERMINAL
        THEN IF own = toremove
             THEN IF get_type(other) = TERMINAL
                  THEN [m |-> _deallocate_leaf_node(M, block, pos), r |-> ONELEFT, val |-> other]
                  ELSE res(SetLSlot(M, block, pos, bit, BLANK), FRAGILE)
             ELSE IF other = toremove
             THEN [m |-> _deallocate_leaf_node(M, block, pos), r |-> ONELEFT, val |-> own]
             ELSE res(M, DONE)
        ELSE Bind(_remove_leaf_inner(M, toremove, block, LPtr(M, block, pos, bit) - 1,
                                         depth + 1), LAMBDA x :
             Bind(x.m, LAMBDA N :
             Bind(get_type(LSlot(N, block, pos, 1 - bit)), LAMBDA tother :
             IF x.r = DONE THEN res(N, DONE)
                 ELSE IF x.r = INVALIDATING
                 THEN IF t = MIDDLE
                      THEN res(LMakeInvalid(N, block, pos, bit),
                               IF tother # INVALID THEN INVALIDATING ELSE DONE)
                      ELSE res(N, DONE)
                 ELSE IF x.r = ONELEFT
                 THEN Bind(Check(N, tother # EMPTY, "_remove_leaf_inner"), LAMBDA a :
                      Bind(SetLPtr(SetLSlot(a, block, pos, bit, x.val), block, pos, bit, 0), LAMBDA b :
                      IF tother = TERMINAL THEN res(b, FRAGILE)
                          ELSE IF t # INVALID /\ tother # INVALID THEN res(b, INVALIDATING)
                          ELSE res(b, DONE)))
                 ELSE Bind(Check(N, x.r = FRAGILE, "_remove_leaf_inner"), LAMBDA a :
                      IF tother = EMPTY
                          THEN res(IF t # INVALID THEN LMakeInvalid(a, block, pos, bit) ELSE a,
                                   FRAGILE)
                          ELSE Bind(_catch_leaf(a, block, LPtr(a, block, pos, bit) - 1), LAMBDA c :
                               Bind(IF bit = 0 THEN t = INVALID
                                           ELSE get_type(LSlot(c, block, pos, 1)) = INVALID, LAMBDA lazy :
                               IF lazy THEN res(c, DONE)
                                   ELSE res(LMakeInvalid(c, block, pos, bit),
                                            IF tother = INVALID THEN DONE ELSE INVALIDATING)))))))))))

\* a removal from a leaf that neither counts the input down nor frees the leaf
_remove_leaf_uncounted(M, toremove, block, pos, depth, branch) ==
    _remove_leaf_inner(M, toremove, block, pos, depth)

\* a removal that frees an emptied leaf and leaves the active-leaf handle of
\* the branch as it is
_remove_leaf_dangling(M, toremove, block, pos, depth, branch) ==
    Bind(_remove_leaf_inner(M, toremove, block, pos, depth), LAMBDA x :
    Bind(x.m.pa[block].num_inputs, LAMBDA numin :
    IF x.r = ONELEFT
        THEN IF numin = 1
             THEN [x EXCEPT !.m = _deallocate(x.m, block)]
             ELSE [x EXCEPT !.m = [x.m EXCEPT !.pa[block].num_inputs = numin - 1]]
        ELSE x))

_remove_leaf(M, toremove, block, pos, depth, branch) ==
    Bind(_remove_leaf_inner(M, toremove, block, pos, depth), LAMBDA x :
    Bind(x.m.pa[block].num_inputs, LAMBDA numin :
    IF x.r = ONELEFT
        THEN IF numin = 1
             THEN Bind(_deallocate(x.m, block), LAMBDA a :
                  [x EXCEPT !.m = IF a.pa[branch].active = block
                                      THEN [a EXCEPT !.pa[branch].active = 0] ELSE a])
             ELSE [x EXCEPT !.m = [x.m EXCEPT !.pa[block].num_inputs = numin - 1]]
        ELSE x))

\* a removal that blanks the slot of the string and leaves its sibling in place
_remove_branch_inner_blank(M, toremove, block, pos, depth, moddepth) ==
    Bind(pos + 32 * get_bit(toremove, depth), LAMBDA ownpos :
    IF moddepth # 0 /\ Slot(M, block, ownpos) = toremove
        THEN [m |-> SetSlot(M, block, ownpos, BLANK), r |-> DONE, val |-> BLANK]
        ELSE [m |-> M, r |-> DONE, val |-> BLANK])

RECURSIVE _remove_branch_inner(_, _, _, _, _, _)
RECURSIVE _remove_branch(_, _, _, _)
_remove_branch_inner(M, toremove, block, pos, depth, moddepth) ==
    LET res(Y, r) == [m |-> Y, r |-> r, val |-> BLANK]
    IN  IF moddepth = 0
    THEN Bind(M.pa[block].out[pos], LAMBDA o :
         Bind(IF o.pos = NOPOS THEN _remove_branch(M, toremove, o.child, depth)
                  ELSE _remove_leaf(M, toremove, o.child, o.pos, depth, block), LAMBDA x :
         IF o.child = 0 THEN res(M, NOTSTARTED)
             ELSE IF x.r = ONELEFT
             THEN [x EXCEPT !.m = [x.m EXCEPT !.pa[block].out[pos] = NoRef]]
             ELSE x))
    ELSE Bind(get_bit(toremove, depth), LAMBDA bit :
         Bind(pos + 32 * bit, LAMBDA ownpos :
         Bind(pos + 32 * (1 - bit), LAMBDA otherpos :
         Bind(_remove_branch_inner(M, toremove, block, ChildPos(pos, moddepth, bit),
                                       depth + 1, moddepth - 1), LAMBDA x :
         Bind(x.m, LAMBDA N :
         Bind(get_type(Slot(N, block, ownpos)), LAMBDA town :
         Bind(get_type(Slot(N, block, otherpos)), LAMBDA tother :
         Bind(Slot(N, block, ownpos), LAMBDA vown :
         Bind(Slot(N, block, otherpos), LAMBDA vother :
         Bind(SetSlot(SetSlot(N, block, pos, BLANK), block, pos + 32, BLANK), LAMBDA clear :
         IF x.r = NOTSTARTED
             THEN IF town = EMPTY
                  THEN IF tother = EMPTY THEN res(N, NOTSTARTED) ELSE res(N, DONE)
                  ELSE Bind(Check(N, town = TERMINAL, "_remove_branch_inner"), LAMBDA N1 :
                       IF vown = toremove
                           THEN IF tother = TERMINAL
                                THEN [m |-> [clear EXCEPT !.err = N1.err], r |-> ONELEFT,
                                      val |-> vother]
                                ELSE res(SetSlot(IF bit = 0
                                                 THEN Check(N1, tother # EMPTY,
                                                            "_remove_branch_inner")
                                                 ELSE N1,
                                                 block, ownpos, BLANK), FRAGILE)
                           ELSE IF vother = toremove
                           THEN [m |-> [clear EXCEPT !.err = N1.err], r |-> ONELEFT,
                                 val |-> vown]
                           ELSE res(N1, DONE))
             ELSE IF x.r = ONELEFT
             THEN Bind(SetSlot(N, block, ownpos, x.val), LAMBDA a :
                  IF tother = TERMINAL THEN res(a, FRAGILE)
                      ELSE IF town # INVALID THEN res(a, INVALIDATING)
                      ELSE res(a, DONE))
             ELSE IF x.r = FRAGILE
             THEN IF tother = EMPTY
                  THEN res(IF town # INVALID THEN MakeInvalid(N, block, ownpos) ELSE N, FRAGILE)
                  ELSE Bind(_catch_branch(N, block, ChildPos(pos, moddepth, bit),
                                              moddepth - 1), LAMBDA c :
                       IF get_type(Slot(c, block, ownpos)) = INVALID THEN res(c, DONE)
                           ELSE res(MakeInvalid(c, block, ownpos),
                                    IF tother = INVALID THEN DONE ELSE INVALIDATING))
             ELSE IF x.r = INVALIDATING
             THEN IF town = INVALID THEN res(N, DONE)
                  ELSE res(MakeInvalid(Check(N, town = MIDDLE, "_remove_branch_inner"),
                                       block, ownpos),
                           IF tother = INVALID THEN DONE ELSE INVALIDATING)
             ELSE [x EXCEPT !.m = Check(N, x.r = DONE, "_remove_branch_inner")]))))))))))
_remove_branch(M, toremove, block, depth) ==
    Bind(_remove_branch_inner(M, toremove, block, 8, depth, branch_depth), LAMBDA x :
    Bind(Check(x.m, x.r # NOTSTARTED, "_remove_branch"), LAMBDA a :
    IF x.r = ONELEFT THEN [x EXCEPT !.m = _deallocate(a, block)]
        ELSE [x EXCEPT !.m = a]))

\* _remove that empties a set of one element whatever is removed
_remove_any(s, toremove) ==
    Bind(get_type(s.root), LAMBDA t :
    Bind(_remove_branch([pa |-> s.pa, err |-> s.err, nest |-> 0], toremove, s.rootblock, 0), LAMBDA x :
    LET put(M, r, rb) == [root |-> r, rootblock |-> rb, pa |-> M.pa, err |-> M.err]
    IN  IF t = EMPTY THEN s
        ELSE IF t = TERMINAL
        THEN [s EXCEPT !.root = BLANK]
        ELSE IF x.r = INVALIDATING
        THEN put(Check(x.m, get_type(s.root) # INVALID, "make_invalid"),
                 make_invalid(s.root), s.rootblock)
        ELSE IF x.r = ONELEFT THEN put(x.m, x.val, 0)
        ELSE IF x.r = FRAGILE
        THEN put(_catch_branch(x.m, s.rootblock, 8, branch_depth),
                 IF get_type(s.root) # INVALID THEN make_invalid(s.root) ELSE s.root,
                 s.rootblock)
        ELSE put(x.m, s.root, s.rootblock)))

\* _remove: the object afterwards
_remove(s, toremove) ==
    Bind(get_type(s.root), LAMBDA t :
    Bind(_remove_branch([pa |-> s.pa, err |-> s.err, nest |-> 0], toremove, s.rootblock, 0), LAMBDA x :
    LET put(M, r, rb) == [root |-> r, rootblock |-> rb, pa |-> M.pa, err |-> M.err]
    IN  IF t = EMPTY THEN s
        ELSE IF t = TERMINAL
        THEN IF toremove = s.root THEN [s EXCEPT !.root = BLANK] ELSE s
        ELSE IF x.r = INVALIDATING
        THEN put(Check(x.m, get_type(s.root) # INVALID, "make_invalid"),
                 make_invalid(s.root), s.rootblock)
        ELSE IF x.r = ONELEFT THEN put(x.m, x.val, 0)
        ELSE IF x.r = FRAGILE
        THEN put(_catch_branch(x.m, s.rootblock, 8, branch_depth),
                 IF get_type(s.root) # INVALID THEN make_invalid(s.root) ELSE s.root,
                 s.rootblock)
        ELSE put(x.m, s.root, s.rootblock)))

\* the removal of the string as given, its type bits not set to TERMINAL
remove_unflipped(s, toremove) == _remove(s, toremove)

remove_already_hashed(s, toremove) == _remove(s, flip_terminal(toremove))

\* --------------------------------------------------------- proof generation
\* _quick_summary: [p, e]: the bytes appended and the assertion that failed
_quick_summary(val) ==
    Bind(get_type(val), LAMBDA t :
    IF t = EMPTY THEN [p |-> <<EMPTY>>, e |-> ""]
        ELSE IF t = TERMINAL THEN [p |-> val, e |-> ""]
        ELSE [p |-> flip_invalid(val), e |-> IF t = MIDDLE THEN "" ELSE "_quick_summary"])

FirstErr(a, b) == IF a # "" THEN a ELSE b

\* the two summaries alone, a pair of terminals not expanded into its chain
_finish_proof_flat(v0, v1, depth) ==
    [p |-> _quick_summary(v0).p \o _quick_summary(v1).p,
     e |-> FirstErr(_quick_summary(v0).e, _quick_summary(v1).e)]

\* _finish_proof(val, depth, buf) with val = v0 + v1: [p, e].  Two equal
\* terminals share every bit, and get_bit runs off the end of the string.
RECURSIVE _finish_proof(_, _, _)
_finish_proof(v0, v1, depth) ==
    Bind(_quick_summary(v0), LAMBDA q0 :
    Bind(_quick_summary(v1), LAMBDA q1 :
    Bind([p |-> q0.p \o q1.p, e |-> FirstErr(q0.e, q1.e)], LAMBDA plain :
    IF get_type(v0) = TERMINAL /\ get_type(v1) = TERMINAL
        THEN IF get_bit(v0, depth) # get_bit(v1, depth) THEN plain
             ELSE IF depth >= KeyBits THEN [p |-> << >>, e |-> "IndexError"]
             ELSE Bind(_finish_proof(v0, v1, depth + 1), LAMBDA x :
                  IF get_bit(v0, depth) = 0
                      THEN [p |-> <<MIDDLE>> \o x.p \o <<EMPTY>>, e |-> x.e]
                      ELSE [p |-> <<EMPTY, MIDDLE>> \o x.p, e |-> x.e])
        ELSE plain)))

\* _is_included_leaf: [r, p, e]
RECURSIVE _is_included_leaf(_, _, _, _, _)
_is_included_leaf(M, tocheck, block, pos, depth) ==
    IF pos < 0 THEN [r |-> FALSE, p |-> << >>, e |-> "_is_included_leaf"]
    ELSE
    Bind(LSlot(M, block, pos, 0), LAMBDA v0 :
    Bind(LSlot(M, block, pos, 1), LAMBDA v1 :
    Bind(get_bit(tocheck, depth), LAMBDA bit :
    Bind(IF bit = 0 THEN v0 ELSE v1, LAMBDA own :
    Bind(IF bit = 0 THEN v1 ELSE v0, LAMBDA other :
    Bind(get_type(own), LAMBDA t :
    Bind(_finish_proof(v0, v1, depth), LAMBDA fin :
    IF v0 = tocheck \/ v1 = tocheck
        THEN [r |-> TRUE, p |-> <<MIDDLE>> \o fin.p, e |-> fin.e]
        ELSE IF t = EMPTY \/ t = TERMINAL
        THEN [r |-> FALSE, p |-> <<MIDDLE>> \o fin.p, e |-> fin.e]
        ELSE IF t # MIDDLE THEN [r |-> FALSE, p |-> <<MIDDLE>>, e |-> "_is_included_leaf"]
        ELSE Bind(_is_included_leaf(M, tocheck, block, LPtr(M, block, pos, bit) - 1,
                                        depth + 1), LAMBDA x :
             Bind(_quick_summary(other), LAMBDA q :
             IF bit = 0
                 THEN [r |-> x.r, p |-> <<MIDDLE>> \o x.p \o q.p, e |-> FirstErr(x.e, q.e)]
                 ELSE [r |-> x.r, p |-> <<MIDDLE>> \o q.p \o x.p, e |-> FirstErr(q.e, x.e)])))))))))

\* _is_included_branch: [r, p, e]
RECURSIVE _is_included_branch(_, _, _, _, _, _)
_is_included_branch(M, tocheck, block, pos, depth, moddepth) ==
    IF moddepth = 0
    THEN Bind(M.pa[block].out[pos], LAMBDA ref :
         IF ref.pos = NOPOS
             THEN _is_included_branch(M, tocheck, ref.child, 8, depth, branch_depth)
             ELSE _is_included_leaf(M, tocheck, ref.child, ref.pos, depth))
    ELSE
    Bind(Slot(M, block, pos), LAMBDA v0 :
    Bind(Slot(M, block, pos + 32), LAMBDA v1 :
    Bind(get_bit(tocheck, depth), LAMBDA bit :
    Bind(IF bit = 0 THEN v0 ELSE v1, LAMBDA own :
    Bind(IF bit = 0 THEN v1 ELSE v0, LAMBDA other :
    Bind(get_type(own), LAMBDA t :
    Bind(_finish_proof(v0, v1, depth), LAMBDA fin :
    IF v0 = tocheck \/ v1 = tocheck
        THEN [r |-> TRUE, p |-> <<MIDDLE>> \o fin.p, e |-> fin.e]
        ELSE IF t = EMPTY \/ t = TERMINAL
        THEN [r |-> FALSE, p |-> <<MIDDLE>> \o fin.p, e |-> fin.e]
        ELSE IF t # MIDDLE THEN [r |-> FALSE, p |-> <<MIDDLE>>, e |-> "_is_included_branch"]
        ELSE Bind(_is_included_branch(M, tocheck, block, ChildPos(pos, moddepth, bit),
                                          depth + 1, moddepth - 1), LAMBDA x :
             Bind(_quick_summary(other), LAMBDA q :
             IF bit = 0
                 THEN [r |-> x.r, p |-> <<MIDDLE>> \o x.p \o q.p, e |-> FirstErr(x.e, q.e)]
                 ELSE [r |-> x.r, p |-> <<MIDDLE>> \o q.p \o x.p, e |-> FirstErr(q.e, x.e)])))))))))

\* _is_included that takes the one element of a set for the one asked for
_is_included_single(s, tocheck) ==
    Bind(get_root(s).s, LAMBDA s1 :
    Bind(get_type(s1.root), LAMBDA t :
    IF t = EMPTY THEN [s |-> s1, r |-> FALSE, p |-> <<EMPTY>>]
        ELSE IF t = TERMINAL THEN [s |-> s1, r |-> TRUE, p |-> s1.root]
        ELSE IF t # MIDDLE
        THEN [s |-> [s1 EXCEPT !.err = FirstErr(s1.err, "_is_included")],
              r |-> FALSE, p |-> << >>]
        ELSE Bind(_is_included_branch([pa |-> s1.pa, err |-> s1.err, nest |-> 0], tocheck,
                                          s1.rootblock, 8, 0, branch_depth), LAMBDA x :
             [s |-> [s1 EXCEPT !.err = FirstErr(s1.err, x.e)], r |-> x.r, p |-> x.p])))

\* _is_included: [s, r, p]: the object after its get_root, the boolean and
\* the proof; an assertion that fails is recorded in s.err
_is_included(s, tocheck) ==
    Bind(get_root(s).s, LAMBDA s1 :
    Bind(get_type(s1.root), LAMBDA t :
    IF t = EMPTY THEN [s |-> s1, r |-> FALSE, p |-> <<EMPTY>>]
        ELSE IF t = TERMINAL THEN [s |-> s1, r |-> tocheck = s1.root, p |-> s1.root]
        ELSE IF t # MIDDLE
        THEN [s |-> [s1 EXCEPT !.err = FirstErr(s1.err, "_is_included")],
              r |-> FALSE, p |-> << >>]
        ELSE Bind(_is_included_branch([pa |-> s1.pa, err |-> s1.err, nest |-> 0], tocheck,
                                          s1.rootblock, 8, 0, branch_depth), LAMBDA x :
             [s |-> [s1 EXCEPT !.err = FirstErr(s1.err, x.e)], r |-> x.r, p |-> x.p])))

is_included_already_hashed(s, tocheck) == _is_included(s, flip_terminal(tocheck))

\* ------------------------------------------------------------- the verifier
\* sha256(val).digest() of the raw values that are hashed in this model: an
\* injection into the 32-byte strings, with whatever type bits come out
Raws == 0 .. (2 ^ KeyBits - 1)
sha256(raw) == KeyValue((raw % 4) * 64, (5 * raw + 3) % (2 ^ KeyBits))

\* the length of the 32-byte string that starts at proof[pos], 1 when the
\* proof ends before the string does
StringLen(proof, pos) ==
    IF pos + 1 > Len(proof) THEN 1
    ELSE Bind(proof[pos + 1], LAMBDA kind :
         IF kind = KZero THEN 2
             ELSE IF kind = KKey \/ kind = KLink THEN 3
             ELSE IF kind = KHash /\ pos + 2 <= Len(proof) THEN 3 + proof[pos + 2]
             ELSE 1)
Whole(proof, pos) == StringLen(proof, pos) > 1 /\ pos + StringLen(proof, pos) - 1 <= Len(proof)

\* TerminalNode.audit(hashes, bits)
BitsAgree(hash, bits) == \A i \in 1 .. Len(bits) : get_bit(hash, i - 1) = bits[i]

\* _deserialize: [n, pos]; n carries the exception when one is raised
RECURSIVE _deserialize(_, _, _)
_deserialize(proof, pos, bits) ==
    IF pos > Len(proof) THEN [n |-> Raised("IndexError"), pos |-> pos]
    ELSE
    Bind(proof[pos], LAMBDA t :
    Bind(StringLen(proof, pos), LAMBDA len :
    Bind(SubSeq(proof, pos, pos + len - 1), LAMBDA str :
    IF t = EMPTY
        THEN IF len > 1     \* a byte other than 0x00, or zero bytes that parse as empty siblings
             THEN [n |-> Raised("SetError"), pos |-> pos]
             ELSE [n |-> EmptyNode, pos |-> pos + 1]
        ELSE IF t = TERMINAL
        THEN IF ~ Whole(proof, pos) \/ ~ BitsAgree(str, bits)
             THEN [n |-> Raised("AssertionError"), pos |-> pos]
             ELSE [n |-> TerminalNode(str), pos |-> pos + len]
        ELSE IF t = INVALID
        THEN IF ~ Whole(proof, pos)
             THEN [n |-> Raised("AssertionError"), pos |-> pos]
             ELSE [n |-> UnknownNode(flip_middle(str)), pos |-> pos + len]
        ELSE IF len > 1 THEN [n |-> Raised("SetError"), pos |-> pos]
        ELSE Bind(_deserialize(proof, pos + 1, Append(bits, 0)), LAMBDA x0 :
             Bind(_deserialize(proof, x0.pos, Append(bits, 1)), LAMBDA x1 :
             IF IsRaised(x0.n) THEN x0
                 ELSE IF IsRaised(x1.n) THEN x1
                 ELSE [n |-> MiddleNode(x0.n, x1.n), pos |-> x1.pos])))))

\* deserialize_proof: the root node of the ReferenceMerkleSet, or the exception
deserialize_proof(proof) ==
    Bind(_deserialize(proof, 1, << >>), LAMBDA x :
    IF x.n.k = "IndexError" THEN Raised("SetError")
        ELSE IF IsRaised(x.n) THEN x.n
        ELSE IF x.pos # Len(proof) + 1 THEN Raised("SetError")
        ELSE x.n)

\* _confirm that returns whether the value was found, whatever was expected
_confirm_found(rootbytes, val, proof, expected) ==
    Bind(deserialize_proof(proof), LAMBDA p :
    IF p.k = "SetError" THEN [r |-> FALSE, e |-> ""]
        ELSE IF IsRaised(p) THEN [r |-> FALSE, e |-> p.k]
        ELSE IF RefGetRoot(p) # rootbytes THEN [r |-> FALSE, e |-> ""]
        ELSE Bind(RefIsIncludedAlreadyHashed(p, val), LAMBDA x :
             IF x.e = "SetError" THEN [r |-> FALSE, e |-> ""]
                 ELSE [r |-> x.r, e |-> x.e]))

\* _confirm: [r, e]: the boolean returned, e the exception that escapes
_confirm(rootbytes, val, proof, expected) ==
    Bind(deserialize_proof(proof), LAMBDA p :
    IF p.k = "SetError" THEN [r |-> FALSE, e |-> ""]
        ELSE IF IsRaised(p) THEN [r |-> FALSE, e |-> p.k]
        ELSE IF RefGetRoot(p) # rootbytes THEN [r |-> FALSE, e |-> ""]
        ELSE Bind(RefIsIncludedAlreadyHashed(p, val), LAMBDA x :
             IF x.e = "SetError" THEN [r |-> FALSE, e |-> ""]
                 ELSE [r |-> x.r = expected, e |-> x.e]))

confirm_included_already_hashed(rootbytes, val, proof) == _confirm(rootbytes, val, proof, TRUE)

confirm_not_included_already_hashed(rootbytes, val, proof) ==
    _confirm(rootbytes, val, proof, FALSE)

confirm_included(rootbytes, val, proof) ==
    confirm_not_included_already_hashed(rootbytes, sha256(val), proof)

confirm_not_included(rootbytes, val, proof) ==
    confirm_not_included_already_hashed(rootbytes, sha256(val), proof)

\* ------------------------------------------------------------ the state machine
\* the MerkleSet object held in the variables
Self == [root |-> root, rootblock |-> rootblock, pa |-> pointers_to_arrays, err |-> failed]

\* MerkleSet(depth, leaf_units) and ReferenceMerkleSet(), both empty
Init ==
    /\ branch_depth \in 1 .. MaxDepth
    /\ leaf_units \in 1 .. MaxLeafUnits
    /\ root = BLANK
    /\ rootblock = 0
    /\ pointers_to_arrays = << >>
    /\ failed = ""
    /\ refroot = EmptyNode
    /\ eager = NewSet
    /\ members = {}
    /\ calls = 0
    /\ last = "new"
    /\ undo = << >>
    /\ before = << >>

\* the object after a call replaces the one in the variables
Becomes(s) ==
    /\ root' = s.root
    /\ rootblock' = s.rootblock
    /\ pointers_to_arrays' = s.pa
    /\ failed' = s.err

\* What a call that adds toadd, or removes toremove, leaves: s is the object
\* after the call, and the reference gets the same call.  A call in which an
\* assertion fails raises: failed names the assertion and no call follows.
Added(s, toadd) ==
    /\ failed = ""
    /\ Becomes(s)
    /\ refroot' = RefAddAlreadyHashed(refroot, toadd)
    /\ members' = members \cup {flip_terminal(toadd)}
    /\ calls' = calls + 1
    /\ last' = IF flip_terminal(toadd) \in members THEN "add again" ELSE "add"
    /\ UNCHANGED <<branch_depth, leaf_units>>

Removed(s, toremove) ==
    /\ failed = ""
    /\ Becomes(s)
    /\ refroot' = RefRemoveAlreadyHashed(refroot, toremove)
    /\ members' = members \ {flip_terminal(toremove)}
    /\ calls' = calls + 1
    /\ last' = IF flip_terminal(toremove) \in members THEN "remove" ELSE "remove again"
    /\ UNCHANGED <<branch_depth, leaf_units>>

\* mset.add_already_hashed(toadd)
AddAlreadyHashed ==
    \E toadd \in Inputs :
        /\ calls < MaxCalls
        /\ Added(add_already_hashed(Self, toadd), toadd)
        /\ UNCHANGED <<eager, undo, before>>

\* mset.remove_already_hashed(toremove)
RemoveAlreadyHashed ==
    \E toremove \in Inputs :
        /\ calls < MaxCalls
        /\ Removed(remove_already_hashed(Self, toremove), toremove)
        /\ UNCHANGED <<eager, undo, before>>

\* mset.get_root()
GetRoot ==
    /\ failed = ""
    /\ Becomes(get_root(Self).s)
    /\ UNCHANGED <<branch_depth, leaf_units, refroot, eager, members, calls, last, undo,
                   before>>

\* mset.is_included_already_hashed(tocheck)
IsIncludedAlreadyHashed ==
    \E tocheck \in Inputs :
        /\ failed = ""
        /\ Becomes(is_included_already_hashed(Self, tocheck).s)
        /\ UNCHANGED <<branch_depth, leaf_units, refroot, eager, members, calls, last,
                       undo, before>>

Next ==
    \/ AddAlreadyHashed
    \/ RemoveAlreadyHashed
    \/ GetRoot
    \/ IsIncludedAlreadyHashed

Spec == Init /\ [][Next]_vars

\* The same calls with a twin object that gets each mutation too and whose
\* root is read back after every one of them.
TwinAdd ==
    \E toadd \in Inputs :
        /\ calls < MaxCalls
        /\ Added(add_already_hashed(Self, toadd), toadd)
        /\ eager' = get_root(add_already_hashed(eager, toadd)).s
        /\ UNCHANGED <<undo, before>>

TwinRemove ==
    \E toremove \in Inputs :
        /\ calls < MaxCalls
        /\ Removed(remove_already_hashed(Self, toremove), toremove)
        /\ eager' = get_root(remove_already_hashed(eager, toremove)).s
        /\ UNCHANGED <<undo, before>>

NextTwin ==
    \/ TwinAdd
    \/ TwinRemove
    \/ GetRoot
    \/ IsIncludedAlreadyHashed

SpecTwin == Init /\ [][NextTwin]_vars

\* _testmset's round trip: distinct elements are added, get_root() being
\* called before each add, and then removed latest first, get_root() being
\* called after each removal.  undo keeps, for each add, the element and the
\* root read before it.
AddDistinct ==
    \E toadd \in Inputs :
        /\ last \in {"new", "add"}
        /\ Len(undo) < MaxRoundTrip
        /\ flip_terminal(toadd) \notin members
        /\ Added(add_already_hashed(get_root(Self).s, toadd), toadd)
        /\ undo' = Append(undo, [x |-> toadd, before |-> get_root(Self).v])
        /\ UNCHANGED <<eager, before>>

RemoveLatest ==
    /\ members # {}
    /\ LET toremove == undo[Cardinality(members)].x
       IN  Removed(get_root(remove_already_hashed(Self, toremove)).s, toremove)
    /\ UNCHANGED <<eager, undo, before>>

NextRoundTrip ==
    \/ AddDistinct
    \/ RemoveLatest

SpecRoundTrip == Init /\ [][NextRoundTrip]_vars

\* ------------------------------------------------------------------ properties
\* what a caller can observe of a set: its root and, for every candidate,
\* the boolean and the proof of is_included_already_hashed, or the assertion
\* that fails
Observed(s) ==
    [rootbytes |-> get_root(s).v,
     rooterr |-> get_root(s).s.err,
     answers |-> [x \in Inputs |->
                    LET a == is_included_already_hashed(s, x) IN <<a.r, a.p, a.s.err>>]]

\* the blocks of the arena that are leaves, and those that are branches
Leaves == {h \in DOMAIN pointers_to_arrays : pointers_to_arrays[h].leaf}
Branches == {h \in DOMAIN pointers_to_arrays : ~ pointers_to_arrays[h].leaf}

\* C1: for every geometry, after every add_already_hashed / remove_already_hashed
\* call made in lock-step on the packed set and on the reference, get_root() of
\* the two is equal.
C1_RootsAgree ==
    failed = "" => /\ get_root(Self).s.err = ""
                   /\ get_root(Self).v = RefGetRoot(refroot)

\* the roots are compared on a set that has overflowed its first leaf into a
\* second block and has then lost an element
C1_Witness ==
    /\ failed = ""
    /\ last = "remove"
    /\ Leaves # {}
    /\ Cardinality(Branches) >= 2
    /\ get_type(get_root(Self).v) = MIDDLE

\* C2: in every state and for every candidate x, the proof returned by the
\* packed is_included_already_hashed(x) is byte for byte the proof the reference
\* returns, the re-expanded chain of a collapsed pair of terminals included.
C2_ProofsAgree ==
    failed = "" =>
        \A x \in Inputs :
            LET a == is_included_already_hashed(Self, x)
                b == RefIsIncludedAlreadyHashed(refroot, x)
            IN  a.s.err = "" /\ b.e = "" /\ a.p = b.p

\* a proof that ends in the chain written for two terminals sharing a bit,
\* read out of a leaf
C2_Witness ==
    /\ failed = ""
    /\ Leaves # {}
    /\ \E x \in Inputs :
          LET p == is_included_already_hashed(Self, x).p
          IN  /\ Len(p) > 8
              /\ p[Len(p)] = EMPTY
              /\ \E i \in 1 .. (Len(p) - 1) : p[i] = EMPTY /\ p[i + 1] = MIDDLE

\* C3: after any sequence of adds and removes yielding the set S, the boolean
\* of is_included_already_hashed(x) is true exactly for the x in S.
C3_InclusionSound ==
    failed = "" =>
        \A x \in Inputs :
            is_included_already_hashed(Self, x).r = (flip_terminal(x) \in members)

\* members and non-members are both asked for in a set kept in a leaf under
\* a branch of depth two
C3_Witness ==
    /\ failed = ""
    /\ branch_depth = 2
    /\ Leaves # {}
    /\ Cardinality(members) >= 4
    /\ \E x \in Inputs : is_included_already_hashed(Self, x).r
    /\ \E x \in Inputs : ~ is_included_already_hashed(Self, x).r

\* C4: with (r, p) = is_included_already_hashed(x) and root = get_root(),
\* confirm_included_already_hashed(root, x, p) is true exactly when x is in the
\* set and confirm_not_included_already_hashed(root, x, p) exactly when it is not.
C4_ProofsVerify ==
    failed = "" =>
        \A x \in Inputs :
            LET p == is_included_already_hashed(Self, x).p
                rootbytes == get_root(Self).v
                yes == confirm_included_already_hashed(rootbytes, x, p)
                no == confirm_not_included_already_hashed(rootbytes, x, p)
            IN  /\ yes.e = "" /\ no.e = ""
                /\ yes.r = (flip_terminal(x) \in members)
                /\ no.r = (flip_terminal(x) \notin members)

\* a proof of membership and a proof of absence, both with a sibling subtree
\* cut down to its hash, are verified
C4_Witness ==
    /\ failed = ""
    /\ \E x, y \in Inputs :
          LET p == is_included_already_hashed(Self, x).p
              q == is_included_already_hashed(Self, y).p
          IN  /\ confirm_included_already_hashed(get_root(Self).v, x, p).r
              /\ confirm_not_included_already_hashed(get_root(Self).v, y, q).r
              /\ \E i \in 1 .. Len(p) : p[i] = INVALID
              /\ \E i \in 1 .. Len(q) : q[i] = INVALID

\* the set built from scratch by adding the elements of S smallest first
RECURSIVE FromScratch(_)
FromScratch(S) ==
    IF S = {} THEN NewSet
    ELSE LET x == CHOOSE y \in S : \A z \in S : z = y \/ BytesLess(z, y)
         IN  add_already_hashed(FromScratch(S \ {x}), x)

\* C5: get_root() is a function of the set contents only: whatever sequence
\* of adds and removes led to the set S, the root is the root of S built from
\* scratch in one fixed order.
C5_RootOfContents ==
    failed = "" => get_root(Self).v = get_root(FromScratch(members)).v

\* a set whose blocks differ from those of the same set built from scratch,
\* after an element was added and later removed
C5_Witness ==
    /\ failed = ""
    /\ last = "remove"
    /\ Cardinality(members) >= 2
    /\ get_root(Self).s.pa # get_root(FromScratch(members)).s.pa

\* C6: the root of the empty set is BLANK and the root of a set of one
\* element is that element with the TERMINAL tag, whether the set is fresh or
\* was larger before.
C6_EmptyAndSingleton ==
    failed = "" =>
        /\ members = {} => get_root(Self).v = BLANK
        /\ \A x \in Inputs :
              members = {flip_terminal(x)} =>
                  get_root(Self).v = <<TERMINAL, KKey, x[3]>>

\* one element is left of a set that held at least two, and then none
C6_Witness ==
    /\ failed = ""
    /\ last = "remove"
    /\ calls >= 4
    /\ members = {}
    /\ get_root(Self).v = BLANK

\* The calls of Spec, keeping what could be observed just before a call that
\* adds a member again or removes a value that is not a member.
AddMaybeAgain ==
    \E toadd \in Inputs :
        /\ calls < MaxCalls
        /\ Added(add_already_hashed(Self, toadd), toadd)
        /\ before' = IF flip_terminal(toadd) \in members THEN Observed(Self) ELSE << >>
        /\ UNCHANGED <<eager, undo>>

RemoveMaybeAgain ==
    \E toremove \in Inputs :
        /\ calls < MaxCalls
        /\ Removed(remove_already_hashed(Self, toremove), toremove)
        /\ before' = IF flip_terminal(toremove) \in members THEN << >> ELSE Observed(Self)
        /\ UNCHANGED <<eager, undo>>

NextRepeat ==
    \/ AddMaybeAgain
    \/ RemoveMaybeAgain
    \/ GetRoot
    \/ IsIncludedAlreadyHashed

SpecRepeat == Init /\ [][NextRepeat]_vars

\* C7: adding a member again, or removing a value that is not a member,
\* changes neither get_root() nor the boolean and proof that
\* is_included_already_hashed returns for any candidate.
C7_Idempotent ==
    last \in {"add again", "remove again"} =>
        failed = "" /\ Observed(Self) = before

\* a repeated add and a repeated remove made on a set that has a leaf and
\* hashes still to recompute
C7_Witness ==
    /\ failed = ""
    /\ last \in {"add again", "remove again"}
    /\ calls >= 4
    /\ Leaves # {}
    /\ get_type(root) = INVALID

\* C8: when distinct elements are added to an empty set and then removed
\* latest first, the root after each removal is the root read before the
\* matching add, and after the last removal the root is BLANK, rootblock is
\* None and the arena holds no block.
C8_RoundTrip ==
    last = "remove" =>
        /\ failed = ""
        /\ root = undo[Cardinality(members) + 1].before
        /\ members = {} =>
              root = BLANK /\ rootblock = 0 /\ DOMAIN pointers_to_arrays = {}

\* the whole of MaxRoundTrip elements is removed again
C8_Witness ==
    /\ last = "remove"
    /\ Len(undo) >= 4
    /\ members = {}
    /\ calls = 2 * Len(undo)

\* C9: the final get_root() and every is_included_already_hashed result are
\* the same whether get_root / is_included calls were made after every
\* mutation, at some points, or never: the set and its twin, which is read
\* after every mutation, answer alike and no call raises.
C9_LazyUnobservable ==
    /\ failed = ""
    /\ Observed(Self) = Observed(eager)

\* C10: confirm_included(root, raw, proof) returns what
\* confirm_included_already_hashed(root, sha256(raw), proof) returns.
C10_ConfirmIncluded ==
    \A raw \in Raws :
        LET p == is_included_already_hashed(Self, sha256(raw)).p
            rootbytes == get_root(Self).v
        IN  confirm_included(rootbytes, raw, p)
                = confirm_included_already_hashed(rootbytes, sha256(raw), p)

\* Proof strings offered to the verifier: the proof p, every proper prefix of
\* p (a proof cut short, also inside a 32-byte string), p with a byte after
\* it, p below a MIDDLE byte beside an empty sibling or beside itself, and a
\* MIDDLE byte followed by 31 zero bytes.
Mangled(p) ==
    {p, p \o <<EMPTY>>, <<MIDDLE>> \o p \o <<EMPTY>>, <<MIDDLE>> \o p \o p, <<MIDDLE, KZero>>}
        \cup { SubSeq(p, 1, k) : k \in 0 .. Len(p) - 1 }

\* C11: for the root of the set, every value and every offered proof string,
\* confirm_included and confirm_not_included are not both true, and
\* confirm_included_already_hashed and confirm_not_included_already_hashed
\* are not both true.
C11_NeverBoth ==
    \A raw \in Raws :
        LET x == sha256(raw)
            p == is_included_already_hashed(Self, x).p
            rootbytes == get_root(Self).v
        IN  \A q \in Mangled(p) :
                /\ ~ (confirm_included(rootbytes, raw, q).r
                        /\ confirm_not_included(rootbytes, raw, q).r)
                /\ ~ (confirm_included_already_hashed(rootbytes, x, q).r
                        /\ confirm_not_included_already_hashed(rootbytes, x, q).r)

\* C12: whatever proof string is offered, each confirm_* function returns:
\* no exception escapes it.
C12_VerifierReturns ==
    \A raw \in Raws :
        LET x == sha256(raw)
            p == is_included_already_hashed(Self, x).p
            rootbytes == get_root(Self).v
        IN  \A q \in Mangled(p) :
                /\ confirm_included(rootbytes, raw, q).e = ""
                /\ confirm_not_included(rootbytes, raw, q).e = ""
                /\ confirm_included_already_hashed(rootbytes, x, q).e = ""
                /\ confirm_not_included_already_hashed(rootbytes, x, q).e = ""

\* Calls that name a member by a string with other type bits.  undo keeps, for
\* every member, the string it was added as; AddOther and RemoveOther are
\* given a string that differs from it in the top two bits of byte 0 only.
Other(h) == { g \in Inputs : g # h /\ flip_terminal(g) = flip_terminal(h) }

AddFirst ==
    \E h \in Inputs :
        /\ calls < MaxOther
        /\ flip_terminal(h) \notin members
        /\ Added(add_already_hashed(Self, h), h)
        /\ undo' = Append(undo, [x |-> h, before |-> << >>])
        /\ UNCHANGED <<eager, before>>

AddOther ==
    \E i \in DOMAIN undo : \E g \in Other(undo[i].x) :
        /\ calls < MaxOther
        /\ Added(add_already_hashed(Self, g), g)
        /\ before' = Observed(Self)
        /\ UNCHANGED <<eager, undo>>

RemoveOther ==
    \E i \in DOMAIN undo : \E g \in Other(undo[i].x) :
        /\ calls < MaxOther
        /\ Removed(remove_already_hashed(Self, g), g)
        /\ undo' = SelectSeq(undo, LAMBDA u : u # undo[i])
        /\ before' = <<undo[i].x, g>>
        /\ UNCHANGED eager

NextOther ==
    \/ AddFirst
    \/ AddOther
    \/ RemoveOther
    \/ GetRoot

SpecOther == Init /\ [][NextOther]_vars

\* C13: two inputs that differ only in the top two bits of byte 0 denote the
\* same element: a member is found under the other string, adding the other
\* string changes nothing that can be observed, and removing the other string
\* removes the element (of the calls that return).
C13_TypeBitsIgnored ==
    /\ failed = "" =>
          \A i \in DOMAIN undo : \A g \in Other(undo[i].x) :
              is_included_already_hashed(Self, g).r
    /\ last = "add again" => failed = "" /\ Observed(Self) = before
    /\ (last = "remove" /\ failed = "") =>
          /\ \A g \in {before[1], before[2]} : ~ is_included_already_hashed(Self, g).r
          /\ get_root(Self).v = get_root(FromScratch(members)).v
          /\ Cardinality(members) = Len(undo)

\* a member was removed under its other string from a set that keeps a
\* branch block
C13_Witness ==
    /\ last = "remove"
    /\ failed = ""
    /\ before[1] # before[2]
    /\ flip_terminal(before[1]) \notin members
    /\ Branches # {}

\* MerkleSet(depth, leaf_units) for every depth the constructor accepts, 0
\* included, and the calls of Spec.
InitAnyDepth ==
    /\ branch_depth \in 0 .. MaxDepth
    /\ leaf_units \in 1 .. MaxLeafUnits
    /\ root = BLANK
    /\ rootblock = 0
    /\ pointers_to_arrays = << >>
    /\ failed = ""
    /\ refroot = EmptyNode
    /\ eager = NewSet
    /\ members = {}
    /\ calls = 0
    /\ last = "new"
    /\ undo = << >>
    /\ before = << >>

SpecAnyDepth == InitAnyDepth /\ [][Next]_vars

\* C14: for every geometry the constructor accepts, each add_already_hashed
\* and remove_already_hashed call terminates: the promotion of a full leaf to
\* a new branch never nests without end.
C14_Terminates == failed # "RecursionError"

\* ------------------------------------------------------------------- audit
\* What audit() walks: the nodes reachable from the root slot, in order.  A
\* node is a pair of slots, v0 and v1, of a branch block (pos a byte offset,
\* moddepth its height above the bottom slots) or of a leaf block (pos a
\* cell, moddepth 0); bits is the path from the root to it,
\* expected the slot that points to it (BLANK when that slot is INVALID, as
\* audit passes None) and can_terminate whether the sibling of that slot is
\* not EMPTY.  A reference that leads nowhere ends the walk.
IsLink(v) == get_type(v) \in {MIDDLE, INVALID}
Expected(v) == IF get_type(v) = MIDDLE THEN v ELSE BLANK

RECURSIVE _add_hashes_leaf(_, _, _, _, _, _)
_add_hashes_leaf(pa, leaf, pos, bits, expected, can_terminate) ==
    IF leaf \notin DOMAIN pa THEN << >>
    ELSE IF ~ pa[leaf].leaf THEN << >>
    ELSE IF pos \notin DOMAIN pa[leaf].cell THEN << >>
    ELSE LET c == pa[leaf].cell[pos]
             below(v, ptr, side, other) ==
                 IF IsLink(v)
                 THEN _add_hashes_leaf(pa, leaf, ptr - 1, Append(bits, side), Expected(v),
                                       get_type(other) # EMPTY)
                 ELSE << >>
         IN  below(c.s0, c.p0, 0, c.s1)
             \o << [block |-> leaf, pos |-> pos, moddepth |-> 0, bits |-> bits,
                    v0 |-> c.s0, v1 |-> c.s1,
                    expected |-> expected, can_terminate |-> can_terminate] >>
             \o below(c.s1, c.p1, 1, c.s0)

RECURSIVE _audit_branch_inner(_, _, _, _, _, _, _)
_audit_branch_inner(pa, branch, pos, moddepth, bits, expected, can_terminate) ==
    IF branch \notin DOMAIN pa THEN << >>
    ELSE IF pa[branch].leaf THEN << >>
    ELSE IF moddepth = 0
    THEN LET output == pa[branch].out[pos].child
             newpos == pa[branch].out[pos].pos
         IN  IF newpos = NOPOS
             THEN _audit_branch_inner(pa, output, 8, branch_depth, bits, expected,
                                      can_terminate)
             ELSE _add_hashes_leaf(pa, output, newpos, bits, expected, can_terminate)
    ELSE LET v0 == pa[branch].slot[pos]
             v1 == pa[branch].slot[pos + 32]
             below(v, side, other) ==
                 IF IsLink(v)
                 THEN _audit_branch_inner(pa, branch, ChildPos(pos, moddepth, side),
                                          moddepth - 1, Append(bits, side), Expected(v),
                                          get_type(other) # EMPTY)
                 ELSE << >>
         IN  below(v0, 0, v1)
             \o << [block |-> branch, pos |-> pos, moddepth |-> moddepth, bits |-> bits,
                    v0 |-> v0, v1 |-> v1,
                    expected |-> expected, can_terminate |-> can_terminate] >>
             \o below(v1, 1, v0)

\* the nodes of the set in the variables
AuditNodes ==
    IF IsLink(root)
    THEN _audit_branch_inner(pointers_to_arrays, rootblock, 8, branch_depth, << >>,
                             Expected(root), TRUE)
    ELSE << >>
Nodes == { AuditNodes[i] : i \in DOMAIN AuditNodes }

\* newhashes of audit: the TERMINAL slots in the order of the walk
RECURSIVE Flatten(_)
Flatten(ss) == IF ss = << >> THEN << >> ELSE Head(ss) \o Flatten(Tail(ss))
TerminalsOf(n) ==
    (IF get_type(n.v0) = TERMINAL THEN <<n.v0>> ELSE << >>)
        \o (IF get_type(n.v1) = TERMINAL THEN <<n.v1>> ELSE << >>)
newhashes ==
    IF get_type(root) = TERMINAL THEN <<root>>
    ELSE Flatten([i \in DOMAIN AuditNodes |-> TerminalsOf(AuditNodes[i])])

\* C15: between calls the packed tree stores exactly the set: the TERMINAL
\* slots reachable from the root, walked in order, are the members, each
\* once, in strictly increasing byte order, and each of them agrees with the
\* path to its node on every bit of that path.
C15_StoresTheSet ==
    /\ { newhashes[i] : i \in DOMAIN newhashes } = members
    /\ \A i \in DOMAIN newhashes : i > 1 => BytesLess(newhashes[i - 1], newhashes[i])
    /\ \A n \in Nodes :
          /\ get_type(n.v0) = TERMINAL => BitsAgree(n.v0, n.bits)
          /\ get_type(n.v1) = TERMINAL => BitsAgree(n.v1, n.bits)

\* three members left by a removal, one of them in a leaf block two levels
\* below the root
C15_Witness ==
    /\ failed = ""
    /\ last = "remove"
    /\ Len(newhashes) >= 3
    /\ \E n \in Nodes : Len(n.bits) >= 2 /\ n.block \in Leaves /\ get_type(n.v0) = TERMINAL

\* the slot of node a that the path to node n goes through, when a is above n
IsAbove(a, n) == Len(a.bits) < Len(n.bits) /\ SubSeq(n.bits, 1, Len(a.bits)) = a.bits
SlotTowards(a, n) == IF n.bits[Len(a.bits) + 1] = 0 THEN a.v0 ELSE a.v1

\* C16: the cached hashes are coherent: every slot tagged MIDDLE, the root
\* slot included, points to a node whose two slots are both not INVALID and
\* whose hash is the payload of the slot; and when a slot is INVALID every
\* slot on the path from it up to the root slot is INVALID.
C16_CacheCoherent ==
    /\ \A n \in Nodes :
          n.expected # BLANK =>
              /\ get_type(n.v0) # INVALID
              /\ get_type(n.v1) # INVALID
              /\ hasher(n.v0, n.v1) = n.expected
    /\ \A n \in Nodes :
          (get_type(n.v0) = INVALID \/ get_type(n.v1) = INVALID) =>
              /\ get_type(root) = INVALID
              /\ n.expected = BLANK
              /\ \A a \in Nodes : IsAbove(a, n) => get_type(SlotTowards(a, n)) = INVALID

\* after a call that read the hashes: a MIDDLE slot two levels below the root
\* slot that is itself MIDDLE, and, after a later add, an INVALID slot below an
\* INVALID slot beside a slot that is still MIDDLE
C16_Witness ==
    /\ failed = ""
    /\ \E n \in Nodes :
          /\ Len(n.bits) >= 1
          /\ get_type(n.v0) = INVALID
          /\ \E a \in Nodes : IsAbove(a, n) /\ MIDDLE \in {get_type(a.v0), get_type(a.v1)}

\* C17: no reachable node has an EMPTY slot beside a TERMINAL slot, nor two
\* EMPTY slots: the sibling of an EMPTY slot is MIDDLE or INVALID.
C17_EmptyBesideLink ==
    \A n \in Nodes :
        /\ get_type(n.v0) = EMPTY => IsLink(n.v1)
        /\ get_type(n.v1) = EMPTY => IsLink(n.v0)

\* a removal leaves a node with an EMPTY slot beside an INVALID one, above a
\* node of a leaf block with a TERMINAL slot beside a link
C17_Witness ==
    /\ failed = ""
    /\ last = "remove"
    /\ \E n \in Nodes : get_type(n.v1) = EMPTY /\ get_type(n.v0) = INVALID
    /\ \E n \in Nodes : n.block \in Leaves /\ get_type(n.v1) = TERMINAL /\ IsLink(n.v0)

\* C18: a node whose two slots are both TERMINAL is the top node of the root
\* branch, or the slot that points to it has a sibling that is not EMPTY.
C18_PairsCollapsed ==
    \A n \in Nodes :
        (get_type(n.v0) = TERMINAL /\ get_type(n.v1) = TERMINAL) =>
            n.bits = << >> \/ n.can_terminate

\* a removal leaves a pair of TERMINAL slots in a leaf block, below a slot
\* whose sibling is TERMINAL
C18_Witness ==
    /\ failed = ""
    /\ last = "remove"
    /\ \E n \in Nodes :
          /\ get_type(n.v0) = TERMINAL /\ get_type(n.v1) = TERMINAL
          /\ n.block \in Leaves
          /\ \E a \in Nodes : /\ IsAbove(a, n) /\ Len(a.bits) + 1 = Len(n.bits)
                              /\ TERMINAL \in {get_type(a.v0), get_type(a.v1)}

\* C19: whenever both slots of a node are TERMINAL, in a branch block or in a
\* leaf block, the left payload is strictly less than the right one in byte
\* order.
C19_PairsOrdered ==
    \A n \in Nodes :
        (get_type(n.v0) = TERMINAL /\ get_type(n.v1) = TERMINAL) => BytesLess(n.v0, n.v1)

\* a removal leaves a pair below the top node whose strings share their next
\* bit, so that the byte order and not the path decides their sides, and a
\* pair in a leaf block
C19_Witness ==
    /\ failed = ""
    /\ last = "remove"
    /\ \E n, m \in Nodes :
          /\ \A x \in {n, m} : get_type(x.v0) = TERMINAL /\ get_type(x.v1) = TERMINAL
          /\ Len(n.bits) >= 1
          /\ get_bit(n.v0, Len(n.bits)) = get_bit(n.v1, Len(n.bits))
          /\ m.block \in Leaves

\* the references held in the bottom slots of the branch blocks of the arena:
\* from the block `from`, at byte offset `at`, to the block `child`
BottomRefs ==
    { [from |-> b, at |-> o, child |-> pointers_to_arrays[b].out[o].child,
       pos |-> pointers_to_arrays[b].out[o].pos] :
          <<b, o>> \in { <<b2, o2>> \in Branches \X BottomOffsets(8, branch_depth) :
                            pointers_to_arrays[b2].out[o2].child # 0 } }

\* allblocks of audit: the blocks reached from self.rootblock through bottom
\* slots
RECURSIVE ReachFrom(_)
ReachFrom(S) ==
    LET T == S \cup { r.child : r \in { q \in BottomRefs : q.from \in S } }
    IN  IF T = S THEN S ELSE ReachFrom(T)
allblocks == IF rootblock = 0 THEN {} ELSE ReachFrom({rootblock})

\* C20: no block is leaked, dangling or shared: the handles of the arena are
\* the blocks reachable from rootblock through bottom slots, every handle in
\* a bottom slot is in the arena, each branch block is referenced by exactly
\* one slot (rootblock or one bottom slot), and each leaf block only by bottom
\* slots of a single branch block.
C20_BlocksOwnedOnce ==
    /\ allblocks = DOMAIN pointers_to_arrays
    /\ \A r \in BottomRefs : r.child \in DOMAIN pointers_to_arrays
    /\ rootblock # 0 => rootblock \in Branches
    /\ \A b \in Branches :
          Cardinality({ r \in BottomRefs : r.child = b }) + (IF rootblock = b THEN 1 ELSE 0) = 1
    /\ \A l \in Leaves :
          /\ rootblock # l
          /\ \E b \in Branches : \A r \in BottomRefs : r.child = l => r.from = b
    /\ \A r \in BottomRefs : (r.pos = NOPOS) = (r.child \in Branches)

\* a removal leaves three blocks or more: a branch block under a bottom slot
\* of the root block, and a leaf block
C20_Witness ==
    /\ failed = ""
    /\ last = "remove"
    /\ \E r \in BottomRefs : r.from = rootblock /\ r.pos = NOPOS
    /\ Leaves # {}

\* the bottom-slot references that point into the leaf block l
InputsOf(l) == { r \in BottomRefs : r.child = l }

\* C21: between calls the num_inputs counter of every leaf block of the arena
\* is the number of bottom-slot references into that leaf and is at least 1:
\* a leaf that lost its last reference is no longer in the arena.
C21_NumInputs ==
    \A l \in Leaves :
        /\ pointers_to_arrays[l].num_inputs = Cardinality(InputsOf(l))
        /\ pointers_to_arrays[l].num_inputs >= 1

\* a leaf block that holds two inputs, in an arena with a branch block under
\* a bottom slot of the root block
C21_Witness ==
    /\ failed = ""
    /\ Cardinality(Branches) >= 2
    /\ \E l \in Leaves : pointers_to_arrays[l].num_inputs = 2

\* the free list of a leaf block as _audit_whole_leaf follows it: the cells
\* visited from first_unused on, then the value the walk stops at.  It stops
\* at 0xFFFF, at an index that is no cell, or after more steps than the leaf
\* has cells.
RECURSIVE FreeList(_, _, _)
FreeList(l, i, steps) ==
    IF i = NOPOS \/ i \notin DOMAIN pointers_to_arrays[l].cell \/ steps = 0
    THEN <<i>>
    ELSE <<i>> \o FreeList(l, First2(pointers_to_arrays[l].cell[i].s0), steps - 1)
FreeCells(l) ==
    LET f == FreeList(l, pointers_to_arrays[l].first_unused, leaf_units + 1)
    IN  SubSeq(f, 1, Len(f) - 1)
FreeEnd(l) ==
    LET f == FreeList(l, pointers_to_arrays[l].first_unused, leaf_units + 1)
    IN  f[Len(f)]

\* the cells of a leaf block that _audit_whole_leaf_inner copies: those
\* reached from the inputs of the leaf through the child pointers
UsedCells(l) ==
    LET here == SelectSeq(AuditNodes, LAMBDA n : n.block = l)
    IN  [i \in DOMAIN here |-> here[i].pos]

Range(seq) == { seq[i] : i \in DOMAIN seq }

\* C22: between calls, in every leaf block the free list from first_unused
\* visits each unused cell once and ends at 0xFFFF without a cycle, every
\* other cell is reached once through the child pointers from the inputs of
\* the leaf, and the two sets of cells partition the leaf.
C22_LeafAllocatorExact ==
    \A l \in Leaves :
        /\ FreeEnd(l) = NOPOS
        /\ Cardinality(Range(FreeCells(l))) = Len(FreeCells(l))
        /\ Cardinality(Range(UsedCells(l))) = Len(UsedCells(l))
        /\ Range(FreeCells(l)) \cap Range(UsedCells(l)) = {}
        /\ Range(FreeCells(l)) \cup Range(UsedCells(l)) = 0 .. (leaf_units - 1)

\* a removal leaves a leaf block whose first cell was used, was freed and now
\* heads the free list, while its second cell is in use
C22_Witness ==
    /\ failed = ""
    /\ last = "remove"
    /\ \E l \in Leaves : FreeCells(l) = <<0>> /\ UsedCells(l) = <<1>>

\* C23: between calls the active-leaf handle of every branch block is zero, or
\* the handle of a leaf block of the arena that a bottom slot of that same
\* branch refers to: it never dangles.
C23_ActiveLeafLive ==
    \A b \in Branches :
        LET active == pointers_to_arrays[b].active
        IN  active # 0 =>
                /\ active \in Leaves
                /\ \E r \in BottomRefs : r.from = b /\ r.child = active

\* after a removal: a branch block whose active-leaf handle is zero although
\* it refers to a block, and another branch block that has an active leaf
C23_Witness ==
    /\ failed = ""
    /\ last = "remove"
    /\ \E b \in Branches : /\ pointers_to_arrays[b].active = 0
                           /\ \E r \in BottomRefs : r.from = b
    /\ \E b \in Branches : pointers_to_arrays[b].active # 0

\* _audit_branch_inner_empty: the inline sub-block at pos is all zero, its
\* bottom references included
Zeroed(branch, pos, moddepth) ==
    /\ \A o \in NodeOffsets(pos, moddepth) :
          /\ pointers_to_arrays[branch].slot[o] = BLANK
          /\ pointers_to_arrays[branch].slot[o + 32] = BLANK
    /\ \A o \in BottomOffsets(pos, moddepth) : pointers_to_arrays[branch].out[o] = NoRef

\* the slot of a node on one side, and the child pointer of a leaf node
SlotOf(n, side) == IF side = 0 THEN n.v0 ELSE n.v1
PtrOf(n, side) ==
    IF side = 0 THEN pointers_to_arrays[n.block].cell[n.pos].p0
                ELSE pointers_to_arrays[n.block].cell[n.pos].p1

\* C24: unused storage is zeroed between calls: every EMPTY slot is all zero,
\* the whole inline sub-block below an EMPTY or TERMINAL slot of a branch
\* block is all zero, bottom references included, and in a leaf node the child
\* pointer of an EMPTY or TERMINAL slot is zero while that of a MIDDLE or
\* INVALID slot is the one-based index of a cell in use.
C24_UnusedZeroed ==
    \A n \in Nodes : \A side \in {0, 1} :
        /\ get_type(SlotOf(n, side)) = EMPTY => SlotOf(n, side) = BLANK
        /\ (n.block \in Branches /\ ~ IsLink(SlotOf(n, side))) =>
               Zeroed(n.block, ChildPos(n.pos, n.moddepth, side), n.moddepth - 1)
        /\ (n.block \in Leaves /\ ~ IsLink(SlotOf(n, side))) => PtrOf(n, side) = 0
        /\ (n.block \in Leaves /\ IsLink(SlotOf(n, side))) =>
               /\ PtrOf(n, side) \in 1 .. leaf_units
               /\ PtrOf(n, side) - 1 \in Range(UsedCells(n.block))

\* after a removal: an EMPTY slot at the top of a branch block of depth two,
\* with a node and two bottom slots below it, a TERMINAL slot above a bottom
\* slot, and a pair of strings in a leaf node, whose child pointers are zero
C24_Witness ==
    /\ failed = ""
    /\ last = "remove"
    /\ \E n \in Nodes : n.moddepth = 2 /\ get_type(n.v1) = EMPTY
    /\ \E n \in Nodes : n.moddepth = 1 /\ get_type(n.v1) = TERMINAL
    /\ \E n \in Nodes : n.block \in Leaves /\ get_type(n.v0) = TERMINAL

\* C25: in every reachable state the root slot is EMPTY iff the set is
\* empty, TERMINAL iff it has one element, MIDDLE or INVALID iff it has two
\* or more; rootblock is None and the arena is empty exactly when the set has
\* at most one element, and a root branch block is allocated exactly when it
\* has two or more.
C25_RootLifecycle ==
    /\ (get_type(root) = EMPTY) = (Cardinality(members) = 0)
    /\ (get_type(root) = TERMINAL) = (Cardinality(members) = 1)
    /\ IsLink(root) = (Cardinality(members) >= 2)
    /\ (rootblock = 0) = (Cardinality(members) <= 1)
    /\ (pointers_to_arrays = << >>) = (Cardinality(members) <= 1)
    /\ (rootblock \in Branches) = (Cardinality(members) >= 2)

\* a removal takes the set from two elements to one: the root slot is
\* TERMINAL again and the root block is gone
C25_Witness ==
    /\ failed = ""
    /\ last = "remove"
    /\ Cardinality(members) = 1
    /\ get_type(root) = TERMINAL
    /\ rootblock = 0
    /\ calls >= 3

\* the nodes of a set object s, as audit walks them, and whether a slot of s
\* is INVALID
NodesOf(s) ==
    LET ns == IF IsLink(s.root)
              THEN _audit_branch_inner(s.pa, s.rootblock, 8, branch_depth, << >>,
                                       Expected(s.root), TRUE)
              ELSE << >>
    IN  Range(ns)
NoneInvalid(s) ==
    /\ get_type(s.root) # INVALID
    /\ \A n \in NodesOf(s) : get_type(n.v0) # INVALID /\ get_type(n.v1) # INVALID

\* C26: after get_root(), and after is_included_already_hashed(), which
\* calls it first, no slot of the structure is INVALID: not the root slot, not
\* a slot of a branch block, not a slot of a leaf block; and no assertion of
\* the descent of _is_included fails.
C26_NothingLazyAfterRead ==
    /\ NoneInvalid(get_root(Self).s)
    /\ get_root(Self).s.err = failed
    /\ \A tocheck \in Inputs :
          /\ NoneInvalid(is_included_already_hashed(Self, tocheck).s)
          /\ is_included_already_hashed(Self, tocheck).s.err = failed

\* an add made after a read leaves INVALID slots in the root slot, in a
\* branch block beside a slot that still holds a hash, and in a leaf block:
\* the reads that follow have hashes to recompute
C26_Witness ==
    /\ failed = ""
    /\ last = "add"
    /\ get_type(root) = INVALID
    /\ \E n \in Nodes : n.block \in Branches /\ INVALID \in {get_type(n.v0), get_type(n.v1)}
                                             /\ MIDDLE \in {get_type(n.v0), get_type(n.v1)}
    /\ \E n \in Nodes : n.block \in Leaves /\ INVALID \in {get_type(n.v0), get_type(n.v1)}

\* C27: every hashing of a node during the recomputation of get_root meets
\* the preconditions of hasher: neither slot is INVALID when it is hashed, two
\* slots that are both EMPTY or TERMINAL are both TERMINAL with the left
\* payload below the right, and an EMPTY slot is all zero.  get_root is taken
\* on the object whatever happened before, so that an assertion of an earlier
\* call does not hide one of hasher.
C27_HasherPreconditions ==
    get_root([Self EXCEPT !.err = ""]).s.err = ""

\* a removal leaves the root slot INVALID above a node with an EMPTY slot
\* beside an INVALID one, and a leaf node with a TERMINAL slot beside an
\* INVALID one: get_root hashes each of them
C27_Witness ==
    /\ failed = ""
    /\ last = "remove"
    /\ get_type(root) = INVALID
    /\ \E n \in Nodes : get_type(n.v1) = EMPTY /\ get_type(n.v0) = INVALID
    /\ \E n \in Nodes : /\ n.block \in Leaves
                        /\ INVALID \in {get_type(n.v0), get_type(n.v1)}
                        /\ TERMINAL \in {get_type(n.v0), get_type(n.v1)}

\* C28: a mutation that is a no-op changes nothing inside: add_already_hashed
\* of an element of the set, and remove_already_hashed of a string that is
\* not in it, leave the root slot with its tag, the handles of the arena and
\* every field of every block as they were, and no assertion fails.
C28_NoOpChangesNothing ==
    LET s == [Self EXCEPT !.err = ""]
    IN  \A x \in Inputs :
            IF flip_terminal(x) \in members
            THEN add_already_hashed(s, x) = s
            ELSE remove_already_hashed(s, x) = s

\* an element is added again to a set of three or more whose hashes were
\* read: the root slot still holds its hash, above branch and leaf blocks
C28_Witness ==
    /\ failed = ""
    /\ last = "add again"
    /\ Cardinality(members) >= 3
    /\ get_type(root) = MIDDLE
    /\ Leaves # {}

\* What a read may do to a slot: leave it, or replace an INVALID slot by a
\* string tagged MIDDLE.
SlotKept(old, new) == new = old \/ (get_type(old) = INVALID /\ get_type(new) = MIDDLE)

\* t is s but for slots that were INVALID: the same handles, rootblock,
\* bottom references, active leaves, child pointers, free lists and counters
SameLayout(s, t) ==
    /\ t.rootblock = s.rootblock
    /\ SlotKept(s.root, t.root)
    /\ DOMAIN t.pa = DOMAIN s.pa
    /\ \A h \in DOMAIN s.pa :
          IF s.pa[h].leaf
          THEN /\ t.pa[h].leaf
               /\ t.pa[h].first_unused = s.pa[h].first_unused
               /\ t.pa[h].num_inputs = s.pa[h].num_inputs
               /\ DOMAIN t.pa[h].cell = DOMAIN s.pa[h].cell
               /\ \A i \in DOMAIN s.pa[h].cell :
                     /\ t.pa[h].cell[i].p0 = s.pa[h].cell[i].p0
                     /\ t.pa[h].cell[i].p1 = s.pa[h].cell[i].p1
                     /\ SlotKept(s.pa[h].cell[i].s0, t.pa[h].cell[i].s0)
                     /\ SlotKept(s.pa[h].cell[i].s1, t.pa[h].cell[i].s1)
                     /\ i \in Range(FreeCells(h)) => t.pa[h].cell[i] = s.pa[h].cell[i]
          ELSE /\ ~ t.pa[h].leaf
               /\ t.pa[h].active = s.pa[h].active
               /\ t.pa[h].out = s.pa[h].out
               /\ DOMAIN t.pa[h].slot = DOMAIN s.pa[h].slot
               /\ \A o \in DOMAIN s.pa[h].slot : SlotKept(s.pa[h].slot[o], t.pa[h].slot[o])

\* every slot of t that holds a hash holds the hash of the node below it
Coherent(t) ==
    \A n \in NodesOf(t) : n.expected # BLANK => hasher(n.v0, n.v1) = n.expected

\* C29: get_root and is_included_already_hashed do not change the set or its
\* layout: the handles of the arena, rootblock, every TERMINAL and EMPTY
\* slot, every bottom reference, child pointer, free-list link, num_inputs
\* counter and active-leaf handle stay; only slots that were INVALID change,
\* each to the MIDDLE-tagged hash of its children; and a second get_root
\* changes nothing.
C29_ReadsKeepLayout ==
    LET s == [Self EXCEPT !.err = ""]
        reads == {get_root(s).s} \cup { is_included_already_hashed(s, x).s : x \in Inputs }
    IN  \A t \in reads :
            /\ t.err = ""
            /\ SameLayout(s, t)
            /\ Coherent(t)
            /\ get_root(t).s = t

\* the hashes are to be recomputed: the root slot is INVALID above a leaf
\* block that has an INVALID slot, in an arena with a leaf block that has a
\* free cell and a branch block that has an active leaf
C29_Witness ==
    /\ failed = ""
    /\ get_type(root) = INVALID
    /\ \E n \in Nodes : n.block \in Leaves /\ INVALID \in {get_type(n.v0), get_type(n.v1)}
    /\ \E l \in Leaves : FreeCells(l) # << >>
    /\ \E b \in Branches : pointers_to_arrays[b].active # 0

\* A set with leaves of MaxLeafUnits nodes, or of one more, that is first
\* filled with the elements of Filling, in this order, and then gets any calls
\* with keys of KeyBits + 1 bits.  With branches of depth 1 the filling
\* replaces full leaves by branches.  With branches of depth MaxDepth and
\* leaves of MaxLeafUnits nodes the root branch refers, after the filling, to
\* one full leaf with two inputs and to a second full leaf, which is the
\* active one.  With leaves of one more node there are inputs of three nodes
\* beside leaves with two free cells.
WideInputs == { WideValue(t, w) : t \in {EMPTY, INVALID}, w \in 0 .. (2 ^ (KeyBits + 1) - 1) }

Filling == << WideValue(EMPTY, 0), WideValue(EMPTY, 1), WideValue(EMPTY, 4), WideValue(EMPTY, 5),
              WideValue(EMPTY, 8), WideValue(EMPTY, 9), WideValue(EMPTY, 10) >>

InitCrowded ==
    /\ branch_depth \in 1 .. MaxDepth
    /\ leaf_units \in MaxLeafUnits .. MaxLeafUnits + 1
    /\ root = BLANK
    /\ rootblock = 0
    /\ pointers_to_arrays = << >>
    /\ failed = ""
    /\ refroot = EmptyNode
    /\ eager = NewSet
    /\ members = {}
    /\ calls = 0
    /\ last = "new"
    /\ undo = << >>
    /\ before = << >>

Fill ==
    /\ calls < Len(Filling)
    /\ Added(add_already_hashed(Self, Filling[calls + 1]), Filling[calls + 1])
    /\ UNCHANGED <<eager, undo, before>>

AddCrowded ==
    \E toadd \in WideInputs :
        /\ calls >= Len(Filling)
        /\ calls < Len(Filling) + MaxCrowded
        /\ Added(add_already_hashed(Self, toadd), toadd)
        /\ UNCHANGED <<eager, undo, before>>

RemoveCrowded ==
    \E toremove \in WideInputs :
        /\ calls >= Len(Filling)
        /\ calls < Len(Filling) + MaxCrowded
        /\ Removed(remove_already_hashed(Self, toremove), toremove)
        /\ UNCHANGED <<eager, undo, before>>

NextCrowded ==
    \/ Fill
    \/ AddCrowded
    \/ RemoveCrowded
    \/ GetRoot

SpecCrowded == InitCrowded /\ [][NextCrowded]_vars

\* C30: no copy of a section out of a full leaf fails.  Neither the assertion
\* after the second _copy_between_leafs of _add_to_leaf nor the one after
\* _copy_between_leafs_inner in _copy_leaf_to_branch fails in any call, and
\* after every call each leaf of the arena is referenced by a bottom slot:
\* no leaf that was allocated for a copy is left without a reference.
C30_CopiesSucceed ==
    /\ failed \notin {"_add_to_leaf", "_copy_leaf_to_branch"}
    /\ \A l \in Leaves : InputsOf(l) # {}
    /\ allblocks = DOMAIN pointers_to_arrays

\* The element 0010 was added to the filled set: its section is in a full
\* leaf with two inputs, the active leaf is another leaf and full as well, so
\* the section went to a third leaf, which holds it together with the new
\* element and is the active leaf now.
C30_Witness ==
    /\ failed = ""
    /\ branch_depth = MaxDepth
    /\ leaf_units = MaxLeafUnits
    /\ last = "add"
    /\ calls = Len(Filling) + 1
    /\ flip_terminal(WideValue(EMPTY, 2)) \in members
    /\ Cardinality(Leaves) = 3
    /\ \E l \in Leaves :
          /\ pointers_to_arrays[rootblock].active = l
          /\ pointers_to_arrays[l].num_inputs = 1
          /\ FreeCells(l) = << >>

\* the cells on the free list of a leaf block b, in the order of the list
RECURSIVE FreeOf(_, _, _)
FreeOf(b, i, steps) ==
    IF i = NOPOS \/ i \notin DOMAIN b.cell \/ steps = 0
    THEN << >>
    ELSE <<i>> \o FreeOf(b, First2(b.cell[i].s0), steps - 1)

\* the memory in which k cells were taken from the head of the free list of
\* leaf l, as _insert_leaf takes one before it calls itself
RECURSIVE Taken(_, _, _)
Taken(M, l, k) ==
    IF k = 0 \/ M.pa[l].first_unused = NOPOS THEN M
    ELSE Taken([M EXCEPT !.pa[l].first_unused = First2(M.pa[l].cell[M.pa[l].first_unused].s0)],
               l, k - 1)

\* the memory in which _add_to_leaf_inner has released the node at pos of
\* leaf l, which holds two TERMINALs, before it calls _insert_leaf
Released(M, l, pos) ==
    [M EXCEPT !.pa[l].first_unused = pos,
              !.pa[l].cell[pos].s0 = RawLink(M.pa[l].first_unused),
              !.pa[l].cell[pos].s1 = BLANK]

\* the TERMINAL strings of the keys
WideTerminals == { flip_terminal(x) : x \in WideInputs }

\* what _add_to_leaf_inner passes to _insert_leaf, and what _insert_leaf
\* passes on to itself: two or three of the strings
ThingsOf(things) ==
    {things} \cup { <<things[p[1]], things[p[2]]>> : p \in { q \in (DOMAIN things) \X (DOMAIN things) : q[1] < q[2] } }

\* C31: FULL is a clean failure.  In every state between calls: an
\* _add_to_leaf_inner on a node of a leaf that returns FULL leaves the memory
\* as it was; an _insert_leaf that returns FULL leaves the memory as it was,
\* be it called for a node of two TERMINALs of a leaf, which was released
\* before, or for such a node at the bottom of a branch, on the active leaf or
\* on a new leaf, and be it the first call or one that _insert_leaf makes
\* after it took cells from the free list; a _copy_between_leafs of an input of one
\* leaf into another leaf that returns FULL leaves the source leaf and the
\* used cells of the destination as they were, and the destination has the
\* same free cells, with nothing but a link in them, the same cell at the
\* head of the free list and the same number of inputs.
C31_AddFull ==
    LET M == Mem(pointers_to_arrays)
    IN  \A n \in Nodes : pointers_to_arrays[n.block].leaf =>
            \A toadd \in WideTerminals : BitsAgree(toadd, n.bits) =>
                LET x == _add_to_leaf_inner(M, toadd, n.block, n.pos, Len(n.bits))
                IN  x.r = FULL => x.m = M

C31_InsertFull ==
    LET M == Mem(pointers_to_arrays)
        clean(pre, things, l, depth) ==
            LET x == _insert_leaf(pre, things, l, depth)
            IN  x.r = FULL => x.m = pre
        fresh == _allocate_leaf(M)
        insertions(n, pre, l) ==
            \A toadd \in WideTerminals \ {n.v0, n.v1} : BitsAgree(toadd, n.bits) =>
                \A k \in 0 .. Len(FreeOf(pre.pa[l], pre.pa[l].first_unused, leaf_units)) :
                    \A depth \in Len(n.bits) .. KeyBits + 1 :
                        \A things \in ThingsOf(<<toadd, n.v0, n.v1>>) :
                            clean(Taken(pre, l, k), things, l, depth)
    IN  \A n \in Nodes : (get_type(n.v0) = TERMINAL /\ get_type(n.v1) = TERMINAL) =>
            IF pointers_to_arrays[n.block].leaf
            THEN insertions(n, Released(M, n.block, n.pos), n.block)
            ELSE n.moddepth = 1 =>
                 /\ insertions(n, fresh.m, fresh.h)
                 /\ pointers_to_arrays[n.block].active # 0 =>
                        insertions(n, M, pointers_to_arrays[n.block].active)

C31_CopyFull ==
    LET M == Mem(pointers_to_arrays)
    IN  \A r \in BottomRefs : \A toleaf \in Leaves \ {r.child} :
            (r.pos # NOPOS) =>
            LET x == _copy_between_leafs(M, r.child, toleaf, r.pos)
                old == pointers_to_arrays[toleaf]
                new == x.m.pa[toleaf]
                free == Range(FreeOf(old, old.first_unused, leaf_units))
            IN  x.r = FULL =>
                /\ x.m.err = ""
                /\ x.m.pa[r.child] = pointers_to_arrays[r.child]
                /\ DOMAIN x.m.pa = DOMAIN pointers_to_arrays
                /\ \A i \in DOMAIN old.cell \ free : new.cell[i] = old.cell[i]
                /\ Range(FreeOf(new, new.first_unused, leaf_units)) = free
                /\ Len(FreeOf(new, new.first_unused, leaf_units)) = Cardinality(free)
                /\ \A i \in free : new.cell[i].s1 = BLANK /\ new.cell[i].p0 = 0 /\ new.cell[i].p1 = 0
                /\ new.first_unused = old.first_unused
                /\ new.num_inputs = old.num_inputs

C31_FullIsClean == C31_AddFull /\ C31_InsertFull /\ C31_CopyFull

\* A state with a full leaf in which a node of two TERMINALs is released for
\* an element that does not fit, and with an input whose top node has two
\* children and a leaf with two free cells: the copy takes both cells, fills
\* the second with the first child, finds no cell for the other child, and
\* gives both cells back.
C31_Witness ==
    LET M == Mem(pointers_to_arrays)
    IN  /\ failed = ""
        /\ \E n \in Nodes :
              /\ pointers_to_arrays[n.block].leaf
              /\ get_type(n.v0) = TERMINAL /\ get_type(n.v1) = TERMINAL
              /\ \E toadd \in WideTerminals \ {n.v0, n.v1} :
                    /\ BitsAgree(toadd, n.bits)
                    /\ _add_to_leaf_inner(M, toadd, n.block, n.pos, Len(n.bits)).r = FULL
        /\ \E r \in BottomRefs : \E toleaf \in Leaves \ {r.child} :
              /\ r.pos # NOPOS
              /\ IsLink(pointers_to_arrays[r.child].cell[r.pos].s0)
              /\ IsLink(pointers_to_arrays[r.child].cell[r.pos].s1)
              /\ Len(FreeOf(pointers_to_arrays[toleaf], pointers_to_arrays[toleaf].first_unused,
                            leaf_units)) = 2
              /\ _copy_between_leafs(M, r.child, toleaf, r.pos).r = FULL

\* What the removal of toremove has done at node c and below it when it
\* returns to the caller of the _remove_leaf_inner or _remove_branch_inner
\* that was called for c: [m, r, val].
RemovedBelow(c, toremove) ==
    IF pointers_to_arrays[c.block].leaf
    THEN _remove_leaf_inner(Mem(pointers_to_arrays), toremove, c.block, c.pos, Len(c.bits))
    ELSE _remove_branch_inner(Mem(pointers_to_arrays), toremove, c.block, c.pos, Len(c.bits),
                              c.moddepth)

\* The removal of the member toremove calls catch for node c: the status that
\* comes back from c is FRAGILE, and c is the top node of the root block or
\* the slot beside the one that leads to c is not EMPTY.
IsCaught(c, toremove) ==
    /\ toremove \in members
    /\ BitsAgree(toremove, c.bits)
    /\ \/ c.bits = << >>
       \/ \E p \in Nodes :
             /\ p.bits = SubSeq(c.bits, 1, Len(c.bits) - 1)
             /\ get_type(SlotOf(p, 1 - c.bits[Len(c.bits)])) # EMPTY
    /\ RemovedBelow(c, toremove).r = FRAGILE

\* _catch_leaf or _catch_branch, called for node c
Caught(M, c) ==
    IF pointers_to_arrays[c.block].leaf
    THEN _catch_leaf(M, c.block, c.pos)
    ELSE _catch_branch(M, c.block, c.pos, c.moddepth)

\* the nodes of memory M: node c and the nodes below it
NodesFrom(M, c) ==
    { d \in NodesOf([root |-> root, rootblock |-> rootblock, pa |-> M.pa, err |-> M.err]) :
          d.bits = c.bits \/ IsAbove(c, d) }

\* In memory M there is nothing at and below node c but a chain of nodes with
\* one EMPTY slot, one or more, that ends in a node e of two TERMINAL slots.
ChainTo(M, c, e) ==
    /\ e \in NodesFrom(M, c)
    /\ e.bits # c.bits
    /\ get_type(e.v0) = TERMINAL /\ get_type(e.v1) = TERMINAL
    /\ \A d \in NodesFrom(M, c) \ {e} :
          /\ IsAbove(d, e)
          /\ get_type(SlotOf(d, 1 - e.bits[Len(d.bits) + 1])) = EMPTY

\* C32: when a removal calls catch for a node c with an EMPTY slot, the
\* collapse of the other side gives a pair, which catch puts into c, if and
\* only if there is nothing below c but a chain of nodes with one EMPTY slot
\* that ends in a node e of two TERMINALs.  Then c holds the two strings of e
\* as its TERMINAL slots and has no children, every node of the chain is
\* gone from the tree, their leaf cells are back on the free lists with
\* nothing but a link in them, their branch slots and the references to
\* their blocks are zero, a block that held no other node is deallocated,
\* every other leaf has lost one input for each input that was in the chain,
\* and nothing else has changed.
C32_CollapseToPair ==
    \A c \in Nodes : \A toremove \in members : IsCaught(c, toremove) =>
        LET P == RemovedBelow(c, toremove).m
            Q == Caught(P, c)
            all(M) == NodesOf([root |-> root, rootblock |-> rootblock, pa |-> M.pa, err |-> M.err])
            inP == NodesFrom(P, c)
            inQ == NodesFrom(Q, c)
            here == CHOOSE d \in inP : d.bits = c.bits
            gone == inP \ {here}
            free(b) == Range(FreeOf(b, b.first_unused, leaf_units))
        IN  (get_type(here.v0) = EMPTY \/ get_type(here.v1) = EMPTY) =>
            /\ Q.err = P.err
            /\ (\E e \in inP : ChainTo(P, c, e))
                   <=> (\E d \in inQ : get_type(d.v0) = TERMINAL /\ get_type(d.v1) = TERMINAL
                                           /\ d.bits = c.bits)
            /\ \A e \in inP : ChainTo(P, c, e) =>
                  /\ inQ = {[here EXCEPT !.v0 = e.v0, !.v1 = e.v1]}
                  /\ BytesLess(e.v0, e.v1)
                  /\ all(Q) \ inQ = all(P) \ inP
                  /\ DOMAIN Q.pa = { b \in DOMAIN P.pa : \E d \in all(P) \ gone : d.block = b }
                  /\ \A b \in DOMAIN Q.pa :
                        LET old == P.pa[b]
                            new == Q.pa[b]
                            mine == { g \in gone : g.block = b }
                        IN  IF new.leaf
                            THEN /\ new.num_inputs = old.num_inputs
                                      - Cardinality({ g \in mine :
                                            ~ \E h \in inP : h.block = b /\ IsAbove(h, g) })
                                 /\ free(new) = free(old) \cup { g.pos : g \in mine }
                                 /\ \A i \in DOMAIN new.cell :
                                       IF i \in { g.pos : g \in mine }
                                       THEN /\ new.cell[i].s0[2] \in {KZero, KLink}
                                            /\ new.cell[i].s1 = BLANK
                                            /\ new.cell[i].p0 = 0 /\ new.cell[i].p1 = 0
                                       ELSE IF b = here.block /\ i = here.pos
                                       THEN new.cell[i] = [s0 |-> e.v0, s1 |-> e.v1, p0 |-> 0, p1 |-> 0]
                                       ELSE new.cell[i] = old.cell[i]
                            ELSE /\ \A pos \in DOMAIN new.slot :
                                       new.slot[pos] =
                                           IF \E g \in mine : pos \in {g.pos, g.pos + 32} THEN BLANK
                                           ELSE IF b = here.block /\ pos = here.pos THEN e.v0
                                           ELSE IF b = here.block /\ pos = here.pos + 32 THEN e.v1
                                           ELSE old.slot[pos]
                                 /\ \A pos \in DOMAIN new.out :
                                       new.out[pos] =
                                           IF \E g \in gone :
                                                 /\ g.block = old.out[pos].child
                                                 /\ g.pos = IF old.out[pos].pos = NOPOS THEN 8
                                                            ELSE old.out[pos].pos
                                           THEN NoRef
                                           ELSE old.out[pos]
                                 /\ new.active = IF old.active \in DOMAIN Q.pa \cup {0}
                                                 THEN old.active ELSE 0

\* A member beside a chain is removed: below the node c that is caught there
\* are a node of a child branch with one EMPTY slot and, in a leaf, the node
\* of two TERMINALs.
C32_Witness ==
    /\ failed = ""
    /\ \E c \in Nodes : \E toremove \in members :
          /\ IsCaught(c, toremove)
          /\ LET P == RemovedBelow(c, toremove).m
             IN  /\ \E e \in NodesFrom(P, c) : ChainTo(P, c, e) /\ P.pa[e.block].leaf
                 /\ \E d \in NodesFrom(P, c) :
                       /\ ~ P.pa[d.block].leaf
                       /\ d.block # c.block
                       /\ EMPTY \in {get_type(d.v0), get_type(d.v1)}

\* C33: when a removal calls catch for a node c with an EMPTY slot and there
\* is more below c than a chain that ends in a node of two TERMINALs, the
\* collapse gives nothing and the catch changes nothing: the memory after it
\* is the memory before it, block for block.
C33_CollapseAborts ==
    \A c \in Nodes : \A toremove \in members : IsCaught(c, toremove) =>
        LET P == RemovedBelow(c, toremove).m
            here == CHOOSE d \in NodesFrom(P, c) : d.bits = c.bits
        IN  (/\ EMPTY \in {get_type(here.v0), get_type(here.v1)}
             /\ ~ \E e \in NodesFrom(P, c) : ChainTo(P, c, e))
                => Caught(P, c) = P

\* A member is removed that leaves an EMPTY slot in node c, which is caught;
\* three or more nodes are left below c, in a child branch and in a leaf, and
\* they are no chain.
C33_Witness ==
    /\ failed = ""
    /\ \E c \in Nodes : \E toremove \in members :
          /\ IsCaught(c, toremove)
          /\ LET P == RemovedBelow(c, toremove).m
             IN  /\ \E d \in NodesFrom(P, c) :
                       d.bits = c.bits /\ EMPTY \in {get_type(d.v0), get_type(d.v1)}
                 /\ ~ \E e \in NodesFrom(P, c) : ChainTo(P, c, e)
                 /\ Cardinality(NodesFrom(P, c)) >= 3
                 /\ \E d \in NodesFrom(P, c) : ~ P.pa[d.block].leaf /\ d.block # c.block
                 /\ \E d \in NodesFrom(P, c) : P.pa[d.block].leaf

\* An add of toadd that inserts a pair: the slot on side of node n, on the
\* path of toadd, holds another TERMINAL and the slot beside it is no
\* TERMINAL, so that toadd and the string of the slot are inserted as a pair
\* under the slot.
InsertsPair(n, side, toadd) ==
    /\ get_type(SlotOf(n, side)) = TERMINAL
    /\ get_type(SlotOf(n, 1 - side)) # TERMINAL
    /\ toadd # SlotOf(n, side)
    /\ BitsAgree(toadd, Append(n.bits, side))

\* C34 as it holds: a pair that is inserted becomes the two TERMINAL slots of
\* one node, in byte order, whether the two strings differ in the bit at the
\* depth of that node or share it; the node has no children, so nothing is
\* pushed further down and none of its slots is EMPTY or LAZY.  This is so for
\* the pair that goes under a slot of a node of a branch or of a leaf, and
\* for the pair that makes the first branch under a TERMINAL root.
C34_PairPlacedDirectly ==
    LET s == [Self EXCEPT !.err = ""]
        placed(toadd, other, bits) ==
            LET t == add_already_hashed(s, toadd)
            IN  /\ t.err = ""
                /\ \E d \in NodesOf(t) :
                      /\ d.bits = bits
                      /\ <<d.v0, d.v1>> = Sort2(flip_terminal(toadd), other)
                /\ ~ \E e \in NodesOf(t) :
                        Len(e.bits) > Len(bits) /\ SubSeq(e.bits, 1, Len(bits)) = bits
    IN  /\ \A n \in Nodes : \A side \in {0, 1} : \A toadd \in WideTerminals :
               InsertsPair(n, side, toadd) => placed(toadd, SlotOf(n, side), Append(n.bits, side))
        /\ get_type(root) = TERMINAL =>
               \A toadd \in WideTerminals \ {root} : placed(toadd, root, << >>)

\* C34 as stated: the two strings of a pair that differ in the bit at the
\* depth of the node become its two TERMINAL slots, and a pair that shares
\* this bit is pushed one depth down: the slot of the node on the side of the
\* bit is LAZY, with a node under it, and the slot beside it is EMPTY.
C34_PairPlacedByBit ==
    LET s == [Self EXCEPT !.err = ""]
        placed(toadd, other, bits) ==
            LET t == add_already_hashed(s, toadd)
                b == get_bit(toadd, Len(bits))
            IN  \E d \in NodesOf(t) :
                   /\ d.bits = bits
                   /\ IF b # get_bit(other, Len(bits))
                      THEN <<d.v0, d.v1>> = Sort2(flip_terminal(toadd), other)
                      ELSE /\ get_type(SlotOf(d, b)) = INVALID
                           /\ get_type(SlotOf(d, 1 - b)) = EMPTY
                           /\ \E e \in NodesOf(t) : e.bits = Append(bits, b)
    IN  /\ \A n \in Nodes : \A side \in {0, 1} : \A toadd \in WideTerminals :
               InsertsPair(n, side, toadd) => placed(toadd, SlotOf(n, side), Append(n.bits, side))
        /\ get_type(root) = TERMINAL =>
               \A toadd \in WideTerminals \ {root} : placed(toadd, root, << >>)

\* A state in which the next add can insert, into a node of a branch block, a
\* pair that shares the bit at the depth of that node.
C34_Witness ==
    /\ failed = ""
    /\ \E n \in Nodes : \E side \in {0, 1} : \E toadd \in WideTerminals :
          /\ InsertsPair(n, side, toadd)
          /\ n.moddepth >= 2
          /\ get_bit(toadd, Len(n.bits) + 1) = get_bit(SlotOf(n, side), Len(n.bits) + 1)

\* C35: for a depth of at least 1, whenever the set holds exactly two
\* elements, whether after an add to a set of one or after removes from a
\* larger set, and whatever was moved between blocks before, the arena holds
\* exactly one block, the root branch; its top node holds the two elements as
\* TERMINAL slots in byte order, every slot beneath the top node is zero, no
\* bottom position refers to a block and the handle of the active leaf is zero.
C35_TwoElementsInRootBranch ==
    (failed = "" /\ Cardinality(members) = 2) =>
        /\ IsLink(root)
        /\ DOMAIN pointers_to_arrays = {rootblock}
        /\ ~ pointers_to_arrays[rootblock].leaf
        /\ LET b == pointers_to_arrays[rootblock]
           IN  /\ get_type(b.slot[8]) = TERMINAL
               /\ get_type(b.slot[40]) = TERMINAL
               /\ {b.slot[8], b.slot[40]} = { flip_terminal(x) : x \in members }
               /\ BytesLess(b.slot[8], b.slot[40])
               /\ \A o \in DOMAIN b.slot \ {8, 40} : b.slot[o] = BLANK
               /\ \A o \in DOMAIN b.out : b.out[o] = NoRef
               /\ b.active = 0

\* Two elements are left by a remove that was the last of MaxCalls calls, in
\* a set whose branch blocks have inline nodes beneath the top node.
C35_Witness ==
    /\ failed = ""
    /\ Cardinality(members) = 2
    /\ last = "remove"
    /\ calls = MaxCalls
    /\ branch_depth = MaxDepth

\* C36: between calls the top node of every branch block of the arena, the
\* root branch or a child, has a slot that is not EMPTY, so that what enters a
\* branch block at its top node never sees NOTSTARTED: the assertion
\* result != NOTSTARTED of _remove_branch never fails, and _add_to_branch
\* returns INVALIDATING or DONE for every string whose bits lead to the block,
\* also on the branch that has just taken the place of a full leaf with one
\* input.
C36_BranchesStarted ==
    /\ failed # "_remove_branch"
    /\ failed = "" =>
        /\ \A b \in Branches :
              \/ get_type(pointers_to_arrays[b].slot[8]) # EMPTY
              \/ get_type(pointers_to_arrays[b].slot[40]) # EMPTY
        /\ \A n \in Nodes : \A toadd \in WideTerminals :
              (n.block \in Branches /\ n.pos = 8 /\ BitsAgree(toadd, n.bits)) =>
                  LET x == _add_to_branch(Mem(pointers_to_arrays), toadd, n.block, Len(n.bits))
                  IN  x.m.err = "" => x.r \in {INVALIDATING, DONE}
        /\ \A n \in Nodes : \A r \in BottomRefs : \A toadd \in WideTerminals :
              (/\ r.child = n.block /\ r.pos = n.pos
               /\ pointers_to_arrays[n.block].leaf
               /\ pointers_to_arrays[n.block].num_inputs = 1
               /\ BitsAgree(toadd, n.bits)) =>
                  LET nb == _allocate_branch(Mem(pointers_to_arrays))
                      a == _copy_leaf_to_branch(nb.m, nb.h, 8, branch_depth, n.block, n.pos)
                      x == _add_to_branch(a, toadd, nb.h, Len(n.bits))
                  IN  x.m.err = "" =>
                         /\ x.r \in {INVALIDATING, DONE}
                         /\ \/ get_type(x.m.pa[nb.h].slot[8]) # EMPTY
                            \/ get_type(x.m.pa[nb.h].slot[40]) # EMPTY

\* A remove has just been made, a branch block has a child branch block, and
\* a leaf with one input hangs under a branch block.
C36_Witness ==
    /\ failed = ""
    /\ last = "remove"
    /\ \E r \in BottomRefs : r.pos = NOPOS
    /\ \E r \in BottomRefs : r.pos # NOPOS /\ pointers_to_arrays[r.child].num_inputs = 1

====
